---- MODULE Spec2Model ----
(***************************************************************************)
(* Peak matching and lag statistics of utils/peak_matching.py, and their   *)
(* use by the synchrony matrix (pages/Matriz_de_sincronía.py) and by the   *)
(* pairwise analysis (pages/Análisis_comparativo.py).                      *)
(*                                                                         *)
(* Timestamps are calendar dates: a date is the number of days since       *)
(* 2020-01-01, so (a - b).days is the integer difference a - b.            *)
(* Floating point values are exact rationals num/den (or the square root   *)
(* of one), NaN is a value of its own; rounding of the float arithmetic is *)
(* not modelled.                                                           *)
(***************************************************************************)
EXTENDS Integers, Sequences, FiniteSets, TLC

(***************************************************************************)
(* Bounds of the enumerated inputs.                                        *)
(***************************************************************************)
MaxLen == 2
MaxDia == 2
MaxVentana == 2

Dias == 0..MaxDia

RECURSIVE SecuenciasDe(_, _)
SecuenciasDe(S, n) ==
    IF n = 0 THEN {<<>>}
    ELSE LET menores == SecuenciasDe(S, n - 1)
         IN  menores \cup {Append(s, x) : s \in {t \in menores : Len(t) = n - 1}, x \in S}

\* Every list of at most MaxLen dates, in any order, repetitions included.
ListasDeFechas == SecuenciasDe(Dias, MaxLen)

\* ventana_maxima_dias / ventana_busqueda: negative, zero and positive.
Ventanas == (-1)..MaxVentana

\* Optional[int]: None or an integer.
None == [none |-> TRUE, valor |-> 0]
Algun(v) == [none |-> FALSE, valor |-> v]
VentanasConfiables == {None} \cup {Algun(v) : v \in (-1)..(MaxVentana + 1)}

(***************************************************************************)
(* The inputs of the repository's tests (dates as days since 2020-01-01).  *)
(***************************************************************************)
\* test_empareja_picos_mas_cercanos: 01-01, 01-10, 01-20 / 01-02, 01-11, 04-01
PruebaCercanos ==
    [maestro |-> <<0, 9, 19>>, esclavo |-> <<1, 10, 91>>,
     ventana_busqueda |-> 15, ventana_confiable |-> None]
\* test_return_pares_devuelve_detalle: 03-01, 04-15 / 03-03, 05-10
PruebaDetalle ==
    [maestro |-> <<60, 105>>, esclavo |-> <<62, 130>>,
     ventana_busqueda |-> 40, ventana_confiable |-> None]
\* test_resumir_desfases_filtra_desviaciones_extremas:
\* 01-01, 03-01, 06-01 / 01-02, 03-03, 07-30
PruebaExtremas ==
    [maestro |-> <<0, 60, 152>>, esclavo |-> <<1, 62, 211>>,
     ventana_busqueda |-> 120, ventana_confiable |-> Algun(45)]
\* test_resumen_seguro_retorna_metricas: 2022-01-01, 02-01, 03-01 twice
PruebaSeguro ==
    [maestro |-> <<731, 762, 790>>, esclavo |-> <<731, 762, 790>>,
     ventana_busqueda |-> 60, ventana_confiable |-> Algun(30)]

EntradasDePrueba == {PruebaCercanos, PruebaDetalle, PruebaExtremas, PruebaSeguro}

(***************************************************************************)
(* Numbers: float values as exact rationals.                               *)
(***************************************************************************)
Abs(x) == IF x < 0 THEN -x ELSE x
Max(a, b) == IF a >= b THEN a ELSE b
Min(a, b) == IF a <= b THEN a ELSE b

RECURSIVE MCD(_, _)
MCD(a, b) == IF b = 0 THEN a ELSE MCD(b, a % b)

\* num/den in lowest terms, den > 0.
Racional(n, d) ==
    LET g == MCD(Abs(n), d)
    IN  [nan |-> FALSE, raiz |-> FALSE, num |-> n \div g, den |-> d \div g]

\* np.nan / float("nan")
NaN == [nan |-> TRUE, raiz |-> FALSE, num |-> 0, den |-> 1]

EsCuadrado(n) == \E r \in 0..n : r * r = n
RaizEntera(n) == CHOOSE r \in 0..n : r * r = n

\* The square root of a non-negative rational: rational when it is one,
\* otherwise kept as "the root of num/den".
Raiz(q) ==
    IF EsCuadrado(q.num) /\ EsCuadrado(q.den)
    THEN Racional(RaizEntera(q.num), RaizEntera(q.den))
    ELSE [nan |-> FALSE, raiz |-> TRUE, num |-> q.num, den |-> q.den]

RECURSIVE Suma(_)
Suma(s) == IF s = <<>> THEN 0 ELSE Head(s) + Suma(Tail(s))

(***************************************************************************)
(* utils/peak_matching.py: helpers of calcular_desfases_entre_picos.       *)
(***************************************************************************)
RECURSIVE Insertar(_, _)
Insertar(x, s) ==
    IF s = <<>> THEN <<x>>
    ELSE IF x < Head(s) THEN <<x>> \o s
    ELSE <<Head(s)>> \o Insertar(x, Tail(s))

\* Mutant of the sort: the dates left in the order given.
SinOrdenar(fechas) == fechas

\* sorted(pd.to_datetime(list(fechas))): ascending, repetitions kept.
RECURSIVE _ordenar_fechas(_)
_ordenar_fechas(fechas) ==
    IF fechas = <<>> THEN <<>>
    ELSE Insertar(fechas[Len(fechas)], _ordenar_fechas(SubSeq(fechas, 1, Len(fechas) - 1)))

\* bisect.bisect_left(a, x) with 0-based positions lo..hi.
RECURSIVE Biseccion(_, _, _, _)
Biseccion(a, x, lo, hi) ==
    IF lo < hi
    THEN LET mid == (lo + hi) \div 2
         IN  IF a[mid + 1] < x THEN Biseccion(a, x, mid + 1, hi)
             ELSE Biseccion(a, x, lo, mid)
    ELSE lo

\* Mutant of the bisection: the insertion point is always the front.
BiseccionAlInicio(a, x) == 0

bisect_left(a, x) == Biseccion(a, x, 0, Len(a))

\* Mutants of "del lista[indice]": nothing deleted; the next element deleted.
BorrarNada(lista, indice) == lista
BorrarSiguiente(lista, indice) ==
    SubSeq(lista, 1, indice + 1) \o SubSeq(lista, indice + 3, Len(lista))

\* del lista[indice], indice 0-based.
Borrar(lista, indice) ==
    SubSeq(lista, 1, indice) \o SubSeq(lista, indice + 2, Len(lista))

\* The candidates of one master: successor first, then predecessor, as
\* (0-based position, date).
Candidatos(restantes, fecha_maestro) ==
    LET posicion == bisect_left(restantes, fecha_maestro)
        sucesor == IF posicion < Len(restantes)
                   THEN <<[indice |-> posicion, fecha |-> restantes[posicion + 1]]>>
                   ELSE <<>>
        previo == IF posicion > 0
                  THEN <<[indice |-> posicion - 1, fecha |-> restantes[posicion]]>>
                  ELSE <<>>
    IN  sucesor \o previo

\* Mutant of the key: among equally distant candidates the later one first.
ClaveMenorSucesor(a, b, fecha_maestro) ==
    LET da == a.fecha - fecha_maestro
        db == b.fecha - fecha_maestro
    IN  \/ Abs(da) < Abs(db)
        \/ Abs(da) = Abs(db) /\ da > db

\* key=lambda item: (abs(days), days), compared as Python compares tuples.
ClaveMenor(a, b, fecha_maestro) ==
    LET da == a.fecha - fecha_maestro
        db == b.fecha - fecha_maestro
    IN  \/ Abs(da) < Abs(db)
        \/ Abs(da) = Abs(db) /\ da < db

\* min(candidatos, key=...): the first candidate no other one is below.
Seleccionar(candidatos, fecha_maestro) ==
    LET k == CHOOSE i \in 1..Len(candidatos) :
                 /\ \A j \in 1..Len(candidatos) :
                        ~ClaveMenor(candidatos[j], candidatos[i], fecha_maestro)
                 /\ \A j \in 1..(i - 1) :
                        ClaveMenor(candidatos[i], candidatos[j], fecha_maestro)
    IN  candidatos[k]

\* Mutant of the window test: every candidate accepted.
SiempreDentro(desfase_dias, ventana) == TRUE

\* if abs(desfase_dias) <= ventana_maxima_dias
DentroDeVentana(desfase_dias, ventana) == Abs(desfase_dias) <= ventana

\* Mutant of the loop body: the lag taken as master minus slave.
PasoInvertido(e, fecha_maestro, ventana) ==
    LET candidatos == Candidatos(e.restantes, fecha_maestro)
    IN  IF candidatos = <<>> THEN e
        ELSE LET sel == Seleccionar(candidatos, fecha_maestro)
                 desfase_dias == fecha_maestro - sel.fecha
             IN  IF DentroDeVentana(desfase_dias, ventana)
                 THEN [restantes |-> Borrar(e.restantes, sel.indice),
                       desfases |-> Append(e.desfases, desfase_dias),
                       pares |-> Append(e.pares, <<fecha_maestro, sel.fecha, desfase_dias>>)]
                 ELSE e

\* The body of "for fecha_maestro in fechas_maestro_ordenadas" after the
\* break test: e is [restantes, desfases, pares].
Paso(e, fecha_maestro, ventana) ==
    LET candidatos == Candidatos(e.restantes, fecha_maestro)
    IN  IF candidatos = <<>> THEN e
        ELSE LET sel == Seleccionar(candidatos, fecha_maestro)
                 desfase_dias == sel.fecha - fecha_maestro
             IN  IF DentroDeVentana(desfase_dias, ventana)
                 THEN [restantes |-> Borrar(e.restantes, sel.indice),
                       desfases |-> Append(e.desfases, desfase_dias),
                       pares |-> Append(e.pares, <<fecha_maestro, sel.fecha, desfase_dias>>)]
                 ELSE e

\* The loop from master number i + 1 on, with its "if not restantes: break";
\* indice is the number of masters the loop took.
RECURSIVE Bucle(_, _, _, _)
Bucle(e, ordenadas, i, ventana) ==
    IF i >= Len(ordenadas) \/ e.restantes = <<>>
    THEN [restantes |-> e.restantes, desfases |-> e.desfases, pares |-> e.pares,
          indice |-> i]
    ELSE Bucle(Paso(e, ordenadas[i + 1], ventana), ordenadas, i + 1, ventana)

\* calcular_desfases_entre_picos(..., return_pares=True) for ventana >= 0.
Emparejar(maestro, esclavo, ventana) ==
    IF Len(maestro) = 0 \/ Len(esclavo) = 0
    THEN [restantes |-> <<>>, desfases |-> <<>>, pares |-> <<>>, indice |-> 0]
    ELSE Bucle([restantes |-> _ordenar_fechas(esclavo), desfases |-> <<>>, pares |-> <<>>],
               _ordenar_fechas(maestro), 0, ventana)

(***************************************************************************)
(* utils/peak_matching.py: resumir_desfases.                               *)
(***************************************************************************)
\* Mutant of the clamp: the window passed on as given.
SinAjustar(ventana_busqueda) == ventana_busqueda

\* max(0, int(ventana_busqueda))
AjustarBusqueda(ventana_busqueda) == Max(0, ventana_busqueda)

\* Mutant of the clamp of the reliable window: the min with ventana_busqueda left out.
AjustarConfiableSinTope(ventana_confiable, busqueda) ==
    IF ventana_confiable.none THEN None
    ELSE Algun(Max(0, ventana_confiable.valor))

\* max(0, int(ventana_confiable)), then min(.., ventana_busqueda); None stays.
AjustarConfiable(ventana_confiable, busqueda) ==
    IF ventana_confiable.none THEN None
    ELSE Algun(Min(Max(0, ventana_confiable.valor), busqueda))

\* Mutant of the discard test: a pair at the reliable window is discarded too.
EsDescartadoDesdeElBorde(par, confiable) == Abs(par[3]) >= confiable

\* if abs(desfase) <= ventana_confiable / if abs(desfase) > ventana_confiable
EsValido(par, confiable) == Abs(par[3]) <= confiable
EsDescartado(par, confiable) == Abs(par[3]) > confiable

\* [par for par in pares if abs(desfase) <= ventana_confiable]
ParesValidos(pares, confiable) ==
    IF confiable.none THEN pares
    ELSE LET Cond(par) == EsValido(par, confiable.valor) IN SelectSeq(pares, Cond)

\* [par for par in pares if abs(desfase) > ventana_confiable]
ParesDescartados(pares, confiable) ==
    IF confiable.none THEN <<>>
    ELSE LET Cond(par) == EsDescartado(par, confiable.valor) IN SelectSeq(pares, Cond)

\* [desfase for _, _, desfase in pares_validos]
DesfasesDe(pares) == [k \in 1..Len(pares) |-> pares[k][3]]

\* np.mean(arr): the sum over the size.
np_mean(arr) == Racional(Suma(arr), Len(arr))

\* Mutant of the variance: the mean of the squares minus the mean itself,
\* which changes when every value changes its sign.
VarianzaSinCuadrarLaMedia(arr) ==
    LET cuadrados == [k \in 1..Len(arr) |-> arr[k] * arr[k]]
    IN  Racional(Suma(cuadrados) - Suma(arr), Len(arr))

\* np.var(arr): the mean of the squared distances to np.mean(arr);
\* x - sum/n is (n*x - sum)/n, so the mean of the squares is over n^3.
np_var(arr) ==
    LET n == Len(arr)
        total == Suma(arr)
        cuadrados == [k \in 1..n |-> (n * arr[k] - total) * (n * arr[k] - total)]
    IN  Racional(Suma(cuadrados), n * n * n)

\* np.std(arr): the square root of np.var(arr).
np_std(arr) == Raiz(np_var(arr))

\* Mutant of the branches on arr.size: 0 in place of NaN for an empty array.
MetricasCero(arr) ==
    IF Len(arr) = 0
    THEN [varianza |-> Racional(0, 1), desfase_medio |-> Racional(0, 1),
          desviacion_estandar |-> Racional(0, 1)]
    ELSE [varianza |-> np_var(arr), desfase_medio |-> np_mean(arr),
          desviacion_estandar |-> np_std(arr)]

\* The three branches on arr.size: (varianza, desfase_medio, desviacion).
Metricas(arr) ==
    IF Len(arr) = 0
    THEN [varianza |-> NaN, desfase_medio |-> NaN, desviacion_estandar |-> NaN]
    ELSE IF Len(arr) = 1
    THEN [varianza |-> Racional(0, 1), desfase_medio |-> Racional(arr[1], 1),
          desviacion_estandar |-> Racional(0, 1)]
    ELSE [varianza |-> np_var(arr), desfase_medio |-> np_mean(arr),
          desviacion_estandar |-> np_std(arr)]

\* Mutant of resumir_desfases: the statistics taken from every accepted lag.
ResumirConTodos(desfases, pares, busqueda, confiable) ==
    LET pares_validos == ParesValidos(pares, confiable)
        pares_descartados == ParesDescartados(pares, confiable)
        desfases_validos == DesfasesDe(pares_validos)
        m == Metricas(desfases)
    IN  [desfases |-> desfases,
         pares |-> pares,
         desfases_validos |-> desfases_validos,
         pares_validos |-> pares_validos,
         pares_descartados |-> pares_descartados,
         varianza |-> m.varianza,
         desfase_medio |-> m.desfase_medio,
         desviacion_estandar |-> m.desviacion_estandar,
         ventana_busqueda |-> busqueda,
         ventana_confiable |-> confiable]

\* The dictionary resumir_desfases returns, from the matcher's result.
Resumir(desfases, pares, busqueda, confiable) ==
    LET pares_validos == ParesValidos(pares, confiable)
        pares_descartados == ParesDescartados(pares, confiable)
        desfases_validos == DesfasesDe(pares_validos)
        m == Metricas(desfases_validos)
    IN  [desfases |-> desfases,
         pares |-> pares,
         desfases_validos |-> desfases_validos,
         pares_validos |-> pares_validos,
         pares_descartados |-> pares_descartados,
         varianza |-> m.varianza,
         desfase_medio |-> m.desfase_medio,
         desviacion_estandar |-> m.desviacion_estandar,
         ventana_busqueda |-> busqueda,
         ventana_confiable |-> confiable]

\* No dictionary returned (yet).
SinResumen == Resumir(<<>>, <<>>, 0, None)

(***************************************************************************)
(* State: one call of calcular_desfases_entre_picos, run step by step, or  *)
(* one call of resumir_desfases, which runs the matcher inside.            *)
(***************************************************************************)
VARIABLES
    pc,                        \* "inactivo", "bucle", "retorno", "ValueError", "resumen"
    fechas_maestro,            \* the arguments, as given
    fechas_esclavo,
    ventana_maxima_dias,       \* the window calcular_desfases_entre_picos got
    ventana_busqueda,          \* the arguments of resumir_desfases, as given
    ventana_confiable,
    fechas_maestro_ordenadas,
    fechas_esclavo_restantes,  \* the pool
    indice,                    \* masters the loop has taken
    desfases,
    pares,
    resumen,                   \* the dictionary resumir_desfases returned
    funcion                    \* the function the caller called

(***************************************************************************)
(* State of the pages: one call of calcular_matriz (Matriz_de_sincronía)   *)
(* run cell by cell, or one call of realizar_analisis_completo             *)
(* (Análisis_comparativo); the scan of the lags runs lag by lag.           *)
(***************************************************************************)
VARIABLES
    etapa,                     \* "inactivo", "celdas", "barrido", "fin"
    vista,                     \* the function called: "calcular_matriz", ...
    metrica,                   \* 'tendencia', 'varianza' or 'desfase'
    contaminantes,             \* df.columns
    picos_fechas,              \* per column, the dates of its peaks
    derivadas_suavizadas,      \* per column, its rate of change at each step
    matriz,                    \* matriz[c1][c2], NaN until assigned
    c1,                        \* position of the two loops over the columns
    c2,
    lag,                       \* the scan: the lag the loop is to take next
    max_corr,
    mejor_lag,
    correlaciones,             \* the correlations the scan got, lag by lag
    varianza_desfase,          \* results of realizar_analisis_completo
    sincronia_tendencia

vars_emparejador ==
    <<pc, fechas_maestro, fechas_esclavo, ventana_maxima_dias, ventana_busqueda,
      ventana_confiable, fechas_maestro_ordenadas, fechas_esclavo_restantes,
      indice, desfases, pares, resumen, funcion>>

vars_paginas ==
    <<etapa, vista, metrica, contaminantes, picos_fechas, derivadas_suavizadas, matriz,
      c1, c2, lag, max_corr, mejor_lag, correlaciones, varianza_desfase,
      sincronia_tendencia>>

(***************************************************************************)
(* State of utils/peak_matching_access.py: the matcher the fallback         *)
(* summarizer was built on.                                                *)
(***************************************************************************)
VARIABLES
    calcular_desfases          \* "" or the kind of matcher _resumir_desfases_fallback got

vars_acceso == <<calcular_desfases>>

(***************************************************************************)
(* State of the event pages (Eventos_e_interrupciones, Análisis_de_eventos_ *)
(* (COVID-19)): the lag variance their metric functions computed.           *)
(***************************************************************************)
VARIABLES
    sync_tend,                 \* the two entries of the dictionary returned
    var_desfase

vars_eventos == <<sync_tend, var_desfase>>

(***************************************************************************)
(* State of the interface helpers (utils/ui.py, utils/downloads.py).       *)
(***************************************************************************)
VARIABLES
    runtime,                   \* st.runtime at the last call: "activo", "inactivo", "falla"
    session_state,             \* st.session_state.get("_estilos_sincronia_aplicados")
    renderizado,               \* the elements the calls have sent to the page, in order
    llamada,                   \* the helper called last ("" before any call)
    figura,                    \* the kind of object the last download helper got
    salida                     \* "" or "None" once the last call has returned

vars_interfaz == <<runtime, session_state, renderizado, llamada, figura, salida>>

(***************************************************************************)
(* State of detectar_episodios (pages/Episodios_críticos.py).               *)
(***************************************************************************)
VARIABLES
    fase,                      \* "inactivo", "bucle", "fin"
    serie,                     \* the argument: rows (fecha, valor), dates ascending
    umbral,
    posicion,                  \* rows of serie.dropna() the for loop has taken
    en_evento,
    inicio_actual,             \* None or the date the open run started
    episodios                  \* the list of Episodio built so far

vars_episodios == <<fase, serie, umbral, posicion, en_evento, inicio_actual, episodios>>

vars == <<vars_emparejador, vars_paginas, vars_acceso, vars_eventos, vars_interfaz,
          vars_episodios>>

Init ==
    /\ pc = "inactivo"
    /\ fechas_maestro = <<>>
    /\ fechas_esclavo = <<>>
    /\ ventana_maxima_dias = 0
    /\ ventana_busqueda = 0
    /\ ventana_confiable = None
    /\ fechas_maestro_ordenadas = <<>>
    /\ fechas_esclavo_restantes = <<>>
    /\ indice = 0
    /\ desfases = <<>>
    /\ pares = <<>>
    /\ resumen = SinResumen
    /\ funcion = ""
    /\ etapa = "inactivo"
    /\ vista = ""
    /\ metrica = ""
    /\ contaminantes = <<>>
    /\ picos_fechas = <<>>
    /\ derivadas_suavizadas = <<>>
    /\ matriz = <<>>
    /\ c1 = 0
    /\ c2 = 0
    /\ lag = 0
    /\ max_corr = NaN
    /\ mejor_lag = 0
    /\ correlaciones = <<>>
    /\ varianza_desfase = NaN
    /\ sincronia_tendencia = NaN
    /\ calcular_desfases = ""
    /\ sync_tend = NaN
    /\ var_desfase = NaN
    /\ runtime = "inactivo"
    /\ session_state = FALSE
    /\ renderizado = <<>>
    /\ llamada = ""
    /\ figura = ""
    /\ salida = ""
    /\ fase = "inactivo"
    /\ serie = <<>>
    /\ umbral = 0
    /\ posicion = 0
    /\ en_evento = FALSE
    /\ inicio_actual = None
    /\ episodios = <<>>

\* Mutant of lines 26-33: the empty inputs tested before the window.
EntrarVacioPrimero(maestro, esclavo, ventana) ==
    /\ fechas_maestro' = maestro
    /\ fechas_esclavo' = esclavo
    /\ ventana_maxima_dias' = ventana
    /\ indice' = 0
    /\ desfases' = <<>>
    /\ pares' = <<>>
    /\ IF Len(maestro) = 0 \/ Len(esclavo) = 0
       THEN /\ pc' = "retorno"
            /\ UNCHANGED <<fechas_maestro_ordenadas, fechas_esclavo_restantes>>
       ELSE IF ventana < 0
       THEN /\ pc' = "ValueError"
            /\ UNCHANGED <<fechas_maestro_ordenadas, fechas_esclavo_restantes>>
       ELSE /\ pc' = "bucle"
            /\ fechas_maestro_ordenadas' = _ordenar_fechas(maestro)
            /\ fechas_esclavo_restantes' = _ordenar_fechas(esclavo)

\* Lines 26-39: the window check, the empty inputs, the two sorts.
Entrar(maestro, esclavo, ventana) ==
    /\ fechas_maestro' = maestro
    /\ fechas_esclavo' = esclavo
    /\ ventana_maxima_dias' = ventana
    /\ indice' = 0
    /\ desfases' = <<>>
    /\ pares' = <<>>
    /\ IF ventana < 0
       THEN /\ pc' = "ValueError"
            /\ UNCHANGED <<fechas_maestro_ordenadas, fechas_esclavo_restantes>>
       ELSE IF Len(maestro) = 0 \/ Len(esclavo) = 0
       THEN /\ pc' = "retorno"
            /\ UNCHANGED <<fechas_maestro_ordenadas, fechas_esclavo_restantes>>
       ELSE /\ pc' = "bucle"
            /\ fechas_maestro_ordenadas' = _ordenar_fechas(maestro)
            /\ fechas_esclavo_restantes' = _ordenar_fechas(esclavo)

\* A call of calcular_desfases_entre_picos(maestro, esclavo, ventana, return_pares=True).
calcular_desfases_entre_picos ==
    /\ pc = "inactivo"
    /\ \/ \E maestro \in ListasDeFechas, esclavo \in ListasDeFechas, ventana \in Ventanas :
              Entrar(maestro, esclavo, ventana)
       \/ \E e \in EntradasDePrueba, negativa \in BOOLEAN :
              Entrar(e.maestro, e.esclavo, IF negativa THEN -1 ELSE e.ventana_busqueda)
    /\ funcion' = "calcular_desfases_entre_picos"
    /\ UNCHANGED <<ventana_busqueda, ventana_confiable, resumen>>
    /\ UNCHANGED <<vars_paginas, vars_acceso, vars_eventos, vars_interfaz, vars_episodios>>

\* Mutant of the for loop: the same master is taken again.
IterarSinAvanzar ==
    /\ pc = "bucle"
    /\ indice < Len(fechas_maestro_ordenadas)
    /\ fechas_esclavo_restantes # <<>>
    /\ LET e == Paso([restantes |-> fechas_esclavo_restantes, desfases |-> desfases,
                      pares |-> pares],
                     fechas_maestro_ordenadas[indice + 1], ventana_maxima_dias)
       IN  /\ fechas_esclavo_restantes' = e.restantes
           /\ desfases' = e.desfases
           /\ pares' = e.pares
    /\ indice' = indice
    /\ UNCHANGED <<pc, fechas_maestro, fechas_esclavo, ventana_maxima_dias, ventana_busqueda,
                   ventana_confiable, fechas_maestro_ordenadas, resumen, funcion>>
    /\ UNCHANGED <<vars_paginas, vars_acceso, vars_eventos, vars_interfaz, vars_episodios>>

\* One iteration of the for loop: lines 41-68.
Iterar ==
    /\ pc = "bucle"
    /\ indice < Len(fechas_maestro_ordenadas)
    /\ fechas_esclavo_restantes # <<>>
    /\ LET e == Paso([restantes |-> fechas_esclavo_restantes, desfases |-> desfases,
                      pares |-> pares],
                     fechas_maestro_ordenadas[indice + 1], ventana_maxima_dias)
       IN  /\ fechas_esclavo_restantes' = e.restantes
           /\ desfases' = e.desfases
           /\ pares' = e.pares
    /\ indice' = indice + 1
    /\ UNCHANGED <<pc, fechas_maestro, fechas_esclavo, ventana_maxima_dias, ventana_busqueda,
                   ventana_confiable, fechas_maestro_ordenadas, resumen, funcion>>
    /\ UNCHANGED <<vars_paginas, vars_acceso, vars_eventos, vars_interfaz, vars_episodios>>

\* The loop ends (masters exhausted, or the break on an empty pool): lines 70-72.
Retornar ==
    /\ pc = "bucle"
    /\ \/ indice >= Len(fechas_maestro_ordenadas)
       \/ fechas_esclavo_restantes = <<>>
    /\ pc' = "retorno"
    /\ UNCHANGED <<fechas_maestro, fechas_esclavo, ventana_maxima_dias, ventana_busqueda,
                   ventana_confiable, fechas_maestro_ordenadas, fechas_esclavo_restantes,
                   indice, desfases, pares, resumen, funcion>>
    /\ UNCHANGED <<vars_paginas, vars_acceso, vars_eventos, vars_interfaz, vars_episodios>>

\* resumir_desfases after its call of calcular_desfases_entre_picos returned
\* fin: lines 103-145. (A negative window would have raised in the call.)
ResumirTras(maestro, esclavo, busqueda_dada, confiable_dada, busqueda, fin) ==
    LET confiable == AjustarConfiable(confiable_dada, busqueda)
        vacio == Len(maestro) = 0 \/ Len(esclavo) = 0
    IN  /\ fechas_maestro' = maestro
        /\ fechas_esclavo' = esclavo
        /\ ventana_busqueda' = busqueda_dada
        /\ ventana_confiable' = confiable_dada
        /\ ventana_maxima_dias' = busqueda
        /\ IF busqueda < 0
           THEN /\ pc' = "ValueError"
                /\ UNCHANGED <<fechas_maestro_ordenadas, fechas_esclavo_restantes,
                               indice, desfases, pares, resumen>>
           ELSE /\ pc' = "resumen"
                /\ fechas_maestro_ordenadas' =
                       IF vacio THEN <<>> ELSE _ordenar_fechas(maestro)
                /\ fechas_esclavo_restantes' = fin.restantes
                /\ indice' = fin.indice
                /\ desfases' = fin.desfases
                /\ pares' = fin.pares
                /\ resumen' = Resumir(fin.desfases, fin.pares, busqueda, confiable)

\* resumir_desfases(maestro, esclavo, ventana_busqueda=.., ventana_confiable=..)
\* with arguments from the enumerated lists or from the tests.
LlamarResumir ==
    \/ \E maestro \in ListasDeFechas, esclavo \in ListasDeFechas, busqueda_dada \in Ventanas :
           LET busqueda == AjustarBusqueda(busqueda_dada)
           IN  \E fin \in {Emparejar(maestro, esclavo, busqueda)} :
                   \E confiable_dada \in VentanasConfiables :
                       ResumirTras(maestro, esclavo, busqueda_dada, confiable_dada,
                                   busqueda, fin)
    \/ \E e \in EntradasDePrueba :
           LET busqueda == AjustarBusqueda(e.ventana_busqueda)
               fin == Emparejar(e.maestro, e.esclavo, busqueda)
           IN  ResumirTras(e.maestro, e.esclavo, e.ventana_busqueda,
                           e.ventana_confiable, busqueda, fin)

\* A whole call of resumir_desfases: lines 91-145, the matcher's run included.
resumir_desfases ==
    /\ pc = "inactivo"
    /\ LlamarResumir
    /\ funcion' = "resumir_desfases"
    /\ UNCHANGED <<vars_paginas, vars_acceso, vars_eventos, vars_interfaz, vars_episodios>>

\* utils/peak_matching_access.py, obtener_resumir_desfases: the reloaded
\* module exposes resumir_desfases, which is callable, so that is returned.
obtener_resumir_desfases == "resumir_desfases"

\* resumir_desfases_seguro(*args, **kwargs): the call goes to the function
\* obtener_resumir_desfases returned, with the same arguments.
resumir_desfases_seguro ==
    /\ pc = "inactivo"
    /\ obtener_resumir_desfases = "resumir_desfases"
    /\ LlamarResumir
    /\ funcion' = "resumir_desfases_seguro"
    /\ UNCHANGED <<vars_paginas, vars_acceso, vars_eventos, vars_interfaz, vars_episodios>>

Next ==
    \/ calcular_desfases_entre_picos
    \/ Iterar
    \/ Retornar
    \/ resumir_desfases
    \/ resumir_desfases_seguro

Spec == Init /\ [][Next]_vars

\* The matcher alone, run step by step.
NextEmparejador ==
    \/ calcular_desfases_entre_picos
    \/ Iterar
    \/ Retornar

SpecEmparejador == Init /\ [][NextEmparejador]_vars

(***************************************************************************)
(* utils/peak_matching_access.py: the summarizer rebuilt on a matcher,      *)
(* used when the reloaded module has no resumir_desfases.                  *)
(***************************************************************************)

\* The callables the fallback may be built on: the matcher of this
\* repository, one whose signature has no return_pares (the call with it
\* raises TypeError), and one that takes return_pares and returns the lags only.
Emparejadores == {"calcular_desfases_entre_picos", "sin_return_pares", "solo_desfases"}

\* Mutant of lines 39-60: the pairs taken from the matcher whatever it returns.
ParesSiempre(calcular, fin) == fin.pares

\* pares = [] (line 39), replaced only by the second item of a tuple of two
\* (lines 57-58); after a TypeError (48-55) and for a bare list (59-60) it stays.
ParesDelResultado(calcular, fin) ==
    IF calcular = "calcular_desfases_entre_picos" THEN fin.pares ELSE <<>>

\* desfases: the first item of the tuple, or list(..) of what the call returned.
DesfasesDelResultado(calcular, fin) == fin.desfases

\* _calcular_metricas(desfases), lines 16-23.
_calcular_metricas(arr) ==
    IF Len(arr) = 0
    THEN [varianza |-> NaN, desfase_medio |-> NaN, desviacion_estandar |-> NaN]
    ELSE IF Len(arr) = 1
    THEN [varianza |-> Racional(0, 1), desfase_medio |-> Racional(arr[1], 1),
          desviacion_estandar |-> Racional(0, 1)]
    ELSE [varianza |-> np_var(arr), desfase_medio |-> np_mean(arr),
          desviacion_estandar |-> np_std(arr)]

\* Mutant of line 62: the reliable window applied only when there are no pairs.
SinParesNiVentana(confiable, los_pares) == confiable.none /\ los_pares = <<>>

\* if ventana_confiable is None or not pares (line 62)
SinFiltro(confiable, los_pares) == confiable.none \/ los_pares = <<>>

\* Lines 62-92 of _resumir_desfases_fallback.
ResumirFallback(los_desfases, los_pares, busqueda, confiable) ==
    LET sin_filtro == SinFiltro(confiable, los_pares)
        pares_validos ==
            IF sin_filtro THEN los_pares
            ELSE LET Cond(par) == Abs(par[3]) <= confiable.valor
                 IN  SelectSeq(los_pares, Cond)
        pares_descartados ==
            IF sin_filtro THEN <<>>
            ELSE LET Cond(par) == Abs(par[3]) > confiable.valor
                 IN  SelectSeq(los_pares, Cond)
        desfases_validos ==
            IF sin_filtro THEN los_desfases
            ELSE [k \in 1..Len(pares_validos) |-> pares_validos[k][3]]
        m == _calcular_metricas(desfases_validos)
    IN  [desfases |-> los_desfases,
         pares |-> los_pares,
         desfases_validos |-> desfases_validos,
         pares_validos |-> pares_validos,
         pares_descartados |-> pares_descartados,
         varianza |-> m.varianza,
         desfase_medio |-> m.desfase_medio,
         desviacion_estandar |-> m.desviacion_estandar,
         ventana_busqueda |-> busqueda,
         ventana_confiable |-> confiable]

\* _resumir_desfases_fallback after the matcher it was given returned fin:
\* lines 34-37 and 56-92.
ResumirConFallback(maestro, esclavo, busqueda_dada, confiable_dada, calcular, fin) ==
    LET busqueda == Max(0, busqueda_dada)
        confiable ==
            IF confiable_dada.none THEN None
            ELSE Algun(Min(Max(0, confiable_dada.valor), busqueda))
        vacio == Len(maestro) = 0 \/ Len(esclavo) = 0
        los_desfases == DesfasesDelResultado(calcular, fin)
        los_pares == ParesDelResultado(calcular, fin)
    IN  /\ fechas_maestro' = maestro
        /\ fechas_esclavo' = esclavo
        /\ ventana_busqueda' = busqueda_dada
        /\ ventana_confiable' = confiable_dada
        /\ ventana_maxima_dias' = busqueda
        /\ calcular_desfases' = calcular
        /\ fechas_maestro_ordenadas' = IF vacio THEN <<>> ELSE _ordenar_fechas(maestro)
        /\ fechas_esclavo_restantes' = fin.restantes
        /\ indice' = fin.indice
        /\ desfases' = los_desfases
        /\ pares' = los_pares
        /\ resumen' = ResumirFallback(los_desfases, los_pares, busqueda, confiable)

\* A whole call of _resumir_desfases_fallback(calcular_desfases, maestro,
\* esclavo, ventana_busqueda=.., ventana_confiable=..): lines 34-92, the run
\* of the matcher included; the window it passes is never negative (line 34).
\* The arguments come from the enumerated lists, with the matcher of this
\* repository or one without return_pares, or from the tests, with any matcher.
_resumir_desfases_fallback ==
    /\ pc = "inactivo"
    /\ \/ \E maestro \in ListasDeFechas, esclavo \in ListasDeFechas, busqueda_dada \in Ventanas :
              \E fin \in {Emparejar(maestro, esclavo, Max(0, busqueda_dada))} :
                  \E confiable_dada \in VentanasConfiables,
                     calcular \in {"calcular_desfases_entre_picos", "sin_return_pares"} :
                      ResumirConFallback(maestro, esclavo, busqueda_dada, confiable_dada,
                                         calcular, fin)
       \/ \E e \in EntradasDePrueba, calcular \in Emparejadores :
              ResumirConFallback(e.maestro, e.esclavo, e.ventana_busqueda,
                                 e.ventana_confiable, calcular,
                                 Emparejar(e.maestro, e.esclavo, Max(0, e.ventana_busqueda)))
    /\ pc' = "resumen"
    /\ funcion' = "_resumir_desfases_fallback"
    /\ UNCHANGED <<vars_paginas, vars_eventos, vars_interfaz, vars_episodios>>

\* The callers of this module: the proxy, which reaches resumir_desfases,
\* and the fallback built on a matcher.
NextAcceso ==
    \/ resumir_desfases_seguro
    \/ _resumir_desfases_fallback

SpecAcceso == Init /\ [][NextAcceso]_vars

(***************************************************************************)
(* pages/Matriz_de_sincronía.py and pages/Análisis_comparativo.py: bounds  *)
(* and enumerated inputs.                                                  *)
(***************************************************************************)
\* The scan of calcular_matriz covers -MaxLag..MaxLag (range(-60, 61) in the
\* source) and the one of realizar_analisis_completo one lag more on each
\* side (range(-90, 91) in the source).
MaxLag == 2
\* Number of time steps of a series of rates of change.
MaxPasos == 2
\* Number of peaks of a series.
MaxPicos == 2

\* ventana_busqueda=90, ventana_confiable=45 of both pages.
VentanaBusquedaDePaginas == 90
VentanaConfiableDePaginas == 45

\* find_peaks(..., distance=30): peaks are at least 30 samples apart.
DistanciaEntrePicos == 30

\* Days on which a series may have a peak.
FechasDePico == {0, 30, 40, 80, 130}

\* serie_suavizada.index[indices]: ascending dates, DistanciaEntrePicos apart.
ListasDePicos ==
    {s \in SecuenciasDe(FechasDePico, MaxPicos) :
        \A k \in 1..(Len(s) - 1) : s[k + 1] - s[k] >= DistanciaEntrePicos}

\* A rate of change: missing (NaN), negative, zero or positive.
ValoresDeTasa == {NaN, Racional(-1, 1), Racional(0, 1), Racional(1, 1)}

\* One series of rates of change: a value at each of the MaxPasos steps.
Derivadas == [1..MaxPasos -> ValoresDeTasa]

\* A series too short for the window of 15 steps: no rate is defined.
DerivadaNula == [k \in 1..MaxPasos |-> NaN]

\* serie1.corr(serie2.shift(lag)): undefined, or a coefficient in [-1, 1].
ValoresDeCorrelacion == {NaN, Racional(-1, 1), Racional(0, 1), Racional(1, 1)}

\* df.columns: the columns of the tests' frames.
ColumnasPosibles == {<<"PM10", "PM2_5">>, <<"PM10", "PM2_5", "O3">>}

(***************************************************************************)
(* Operators of both pages.                                                *)
(***************************************************************************)
\* np.sign(x): NaN for NaN, else -1, 0 or 1.
np_sign(x) ==
    IF x.nan THEN NaN
    ELSE IF x.num < 0 THEN Racional(-1, 1)
    ELSE IF x.num = 0 THEN Racional(0, 1)
    ELSE Racional(1, 1)

\* a == b on floats: False when either side is NaN.
Igual(a, b) == ~a.nan /\ ~b.nan /\ a = b

\* np.sign(derivada1) == np.sign(derivada2), element by element (True is 1).
SignosIguales(derivada1, derivada2) ==
    [k \in 1..Len(derivada1) |->
        IF Igual(np_sign(derivada1[k]), np_sign(derivada2[k])) THEN 1 ELSE 0]

\* np.mean(booleans) * 100; np.mean of an empty array is NaN.
Porcentaje(aciertos) ==
    IF Len(aciertos) = 0 THEN NaN ELSE Racional(100 * Suma(aciertos), Len(aciertos))

\* (~derivada_maestro.isna()) & (~derivada_esclavo.isna())
mascara_validos(derivada_maestro, derivada_esclavo) ==
    [k \in 1..Len(derivada_maestro) |->
        ~derivada_maestro[k].nan /\ ~derivada_esclavo[k].nan]

\* derivada[mascara]: the elements whose mask is True.
RECURSIVE Enmascarar(_, _)
Enmascarar(derivada, mascara) ==
    IF derivada = <<>> THEN <<>>
    ELSE (IF Head(mascara) THEN <<Head(derivada)>> ELSE <<>>)
             \o Enmascarar(Tail(derivada), Tail(mascara))

\* calcular_matriz, line 77: np.mean(np.sign(d1) == np.sign(d2)) * 100.
TendenciaDeCelda(derivada1, derivada2) ==
    Porcentaje(SignosIguales(derivada1, derivada2))

\* realizar_analisis_completo, lines 57-66.
SincroniaTendencia(derivada_maestro, derivada_esclavo) ==
    LET mascara == mascara_validos(derivada_maestro, derivada_esclavo)
    IN  IF \E k \in 1..Len(mascara) : mascara[k]
        THEN Porcentaje(SignosIguales(Enmascarar(derivada_maestro, mascara),
                                      Enmascarar(derivada_esclavo, mascara)))
        ELSE NaN

\* resumir_desfases(picos1, picos2, ventana_busqueda=90, ventana_confiable=45)
ResumenDePaginas(fechas_picos1, fechas_picos2) ==
    LET busqueda == AjustarBusqueda(VentanaBusquedaDePaginas)
        confiable == AjustarConfiable(Algun(VentanaConfiableDePaginas), busqueda)
        fin == Emparejar(fechas_picos1, fechas_picos2, busqueda)
    IN  Resumir(fin.desfases, fin.pares, busqueda, confiable)

\* corr > max_corr on floats: False when either side is NaN.
Supera(corr, maximo) ==
    ~corr.nan /\ ~maximo.nan /\ corr.num * maximo.den > maximo.num * corr.den

\* The last lag of the scan of each function.
UltimoLag(funcion_llamada) ==
    IF funcion_llamada = "calcular_matriz" THEN MaxLag ELSE MaxLag + 1

\* Mutant of the diagonal: 0 for every metric.
DiagonalTodoCero(nombre_metrica) == Racional(0, 1)

\* Lines 66-68: the value of a diagonal cell.
ValorDiagonal(nombre_metrica) ==
    IF nombre_metrica = "tendencia" THEN Racional(100, 1) ELSE Racional(0, 1)

\* pd.DataFrame(index=contaminantes, columns=contaminantes, dtype=float)
MatrizVacia(n) == [i \in 1..n |-> [j \in 1..n |-> NaN]]

\* matriz.loc[c1, c2] = valor
Asignar(m, i, j, valor) == [m EXCEPT ![i][j] = valor]

(***************************************************************************)
(* pages/Matriz_de_sincronía.py: calcular_matriz, cell by cell.            *)
(***************************************************************************)
\* The data of the frame that the metric reads; what it does not read is
\* kept trivial (no peak, no defined rate).
EntradasDeMatriz ==
    {[metrica |-> "tendencia", contaminantes |-> <<"PM10", "PM2_5">>,
      picos |-> <<<<>>, <<>>>>, derivadas |-> <<d1, d2>>] :
        d1 \in Derivadas, d2 \in Derivadas}
    \cup
    {[metrica |-> "desfase", contaminantes |-> <<"PM10", "PM2_5">>,
      picos |-> <<<<>>, <<>>>>, derivadas |-> <<DerivadaNula, DerivadaNula>>]}
    \cup
    UNION {{[metrica |-> "varianza", contaminantes |-> columnas,
             picos |-> p, derivadas |-> [k \in 1..Len(columnas) |-> DerivadaNula]] :
                p \in [1..Len(columnas) -> ListasDePicos]} :
           columnas \in ColumnasPosibles}

\* Lines 36-61: the frame is read and the empty matrix built.
calcular_matriz ==
    /\ etapa = "inactivo"
    /\ \E e \in EntradasDeMatriz :
           /\ metrica' = e.metrica
           /\ contaminantes' = e.contaminantes
           /\ picos_fechas' = e.picos
           /\ derivadas_suavizadas' = e.derivadas
           /\ matriz' = MatrizVacia(Len(e.contaminantes))
    /\ vista' = "calcular_matriz"
    /\ etapa' = "celdas"
    /\ c1' = 1
    /\ c2' = 1
    /\ UNCHANGED <<lag, max_corr, mejor_lag, correlaciones, sincronia_tendencia,
                   varianza_desfase>>
    /\ UNCHANGED <<vars_emparejador, vars_acceso, vars_eventos, vars_interfaz, vars_episodios>>

\* for c1 in contaminantes: for c2 in contaminantes: the next cell.
Avanzar ==
    IF c2 < Len(contaminantes)
    THEN c1' = c1 /\ c2' = c2 + 1
    ELSE c1' = c1 + 1 /\ c2' = 1

EnCelda ==
    /\ vista = "calcular_matriz"
    /\ etapa = "celdas"
    /\ c1 <= Len(contaminantes)

\* Lines 65-69: a cell of the diagonal.
CeldaDiagonal ==
    /\ EnCelda
    /\ contaminantes[c1] = contaminantes[c2]
    /\ matriz' = Asignar(matriz, c1, c2, ValorDiagonal(metrica))
    /\ Avanzar
    /\ UNCHANGED <<etapa, vista, metrica, contaminantes, picos_fechas, derivadas_suavizadas,
                   lag, max_corr, mejor_lag, correlaciones, sincronia_tendencia,
                   varianza_desfase>>
    /\ UNCHANGED <<vars_emparejador, vars_acceso, vars_eventos, vars_interfaz, vars_episodios>>

\* Lines 74-77 and 102: a cell of the trend metric.
CeldaTendencia ==
    /\ EnCelda
    /\ contaminantes[c1] # contaminantes[c2]
    /\ metrica = "tendencia"
    /\ matriz' = Asignar(matriz, c1, c2,
                         TendenciaDeCelda(derivadas_suavizadas[c1], derivadas_suavizadas[c2]))
    /\ Avanzar
    /\ UNCHANGED <<etapa, vista, metrica, contaminantes, picos_fechas, derivadas_suavizadas,
                   lag, max_corr, mejor_lag, correlaciones, sincronia_tendencia,
                   varianza_desfase>>
    /\ UNCHANGED <<vars_emparejador, vars_acceso, vars_eventos, vars_interfaz, vars_episodios>>

\* The loops pass a cell of the lag-variance metric: lines 63-65 and 79.
PasarCeldaDeVarianza ==
    /\ EnCelda
    /\ contaminantes[c1] # contaminantes[c2]
    /\ metrica = "varianza"
    /\ Avanzar

\* Lines 79-88 and 102: a cell of the lag-variance metric.
CeldaVarianza ==
    /\ PasarCeldaDeVarianza
    /\ matriz' = Asignar(matriz, c1, c2,
                         ResumenDePaginas(picos_fechas[c1], picos_fechas[c2]).varianza)
    /\ UNCHANGED <<etapa, vista, metrica, contaminantes, picos_fechas, derivadas_suavizadas,
                   lag, max_corr, mejor_lag, correlaciones, sincronia_tendencia,
                   varianza_desfase>>
    /\ UNCHANGED <<vars_emparejador, vars_acceso, vars_eventos, vars_interfaz, vars_episodios>>

\* max_corr, mejor_lag = -1, 0 and the first lag of the range.
IniciarBarrido(funcion_llamada) ==
    /\ max_corr' = Racional(-1, 1)
    /\ mejor_lag' = 0
    /\ lag' = -UltimoLag(funcion_llamada)
    /\ correlaciones' = <<>>

\* Lines 90-94: a cell of the best-lag metric starts its scan.
CeldaDesfase ==
    /\ EnCelda
    /\ contaminantes[c1] # contaminantes[c2]
    /\ metrica = "desfase"
    /\ IniciarBarrido("calcular_matriz")
    /\ etapa' = "barrido"
    /\ UNCHANGED <<vista, metrica, contaminantes, picos_fechas, derivadas_suavizadas,
                   matriz, c1, c2, sincronia_tendencia, varianza_desfase>>
    /\ UNCHANGED <<vars_emparejador, vars_acceso, vars_eventos, vars_interfaz, vars_episodios>>

\* The correlations the data can give: any in calcular_matriz; in
\* realizar_analisis_completo any when the series have neither peaks nor
\* defined rates, and undefined otherwise.
CorrelacionesPosibles ==
    IF \/ vista = "calcular_matriz"
       \/ /\ picos_fechas = <<<<>>, <<>>>>
          /\ derivadas_suavizadas = <<DerivadaNula, DerivadaNula>>
    THEN ValoresDeCorrelacion
    ELSE {NaN}

\* One iteration of the loop over the lags: lines 95-99 of calcular_matriz,
\* lines 69-71 of realizar_analisis_completo.
Barrer ==
    /\ etapa = "barrido"
    /\ lag <= UltimoLag(vista)
    /\ \E corr \in CorrelacionesPosibles :
           /\ correlaciones' = Append(correlaciones, corr)
           /\ IF Supera(corr, max_corr)
              THEN max_corr' = corr /\ mejor_lag' = lag
              ELSE UNCHANGED <<max_corr, mejor_lag>>
    /\ lag' = lag + 1
    /\ UNCHANGED <<etapa, vista, metrica, contaminantes, picos_fechas, derivadas_suavizadas,
                   matriz, c1, c2, sincronia_tendencia, varianza_desfase>>
    /\ UNCHANGED <<vars_emparejador, vars_acceso, vars_eventos, vars_interfaz, vars_episodios>>

\* Lines 100-102: the scan is over, the cell gets mejor_lag.
AsignarDesfase ==
    /\ etapa = "barrido"
    /\ vista = "calcular_matriz"
    /\ lag > UltimoLag(vista)
    /\ matriz' = Asignar(matriz, c1, c2, Racional(mejor_lag, 1))
    /\ Avanzar
    /\ etapa' = "celdas"
    /\ UNCHANGED <<vista, metrica, contaminantes, picos_fechas, derivadas_suavizadas,
                   lag, max_corr, mejor_lag, correlaciones, sincronia_tendencia,
                   varianza_desfase>>
    /\ UNCHANGED <<vars_emparejador, vars_acceso, vars_eventos, vars_interfaz, vars_episodios>>

\* Line 104: return matriz.
RetornarMatriz ==
    /\ vista = "calcular_matriz"
    /\ etapa = "celdas"
    /\ c1 > Len(contaminantes)
    /\ etapa' = "fin"
    /\ UNCHANGED <<vista, metrica, contaminantes, picos_fechas, derivadas_suavizadas,
                   matriz, c1, c2, lag, max_corr, mejor_lag, correlaciones,
                   sincronia_tendencia, varianza_desfase>>
    /\ UNCHANGED <<vars_emparejador, vars_acceso, vars_eventos, vars_interfaz, vars_episodios>>

(***************************************************************************)
(* pages/Análisis_comparativo.py: realizar_analisis_completo.              *)
(***************************************************************************)
\* The two series, by what is derived from them: their peaks vary, or
\* their rates of change do.
EntradasDeAnalisis ==
    {[picos |-> <<picos_maestro, picos_esclavo>>,
      derivadas |-> <<DerivadaNula, DerivadaNula>>] :
        picos_maestro \in ListasDePicos, picos_esclavo \in ListasDePicos}
    \cup
    {[picos |-> <<<<>>, <<>>>>, derivadas |-> <<derivada_maestro, derivada_esclavo>>] :
        derivada_maestro \in Derivadas, derivada_esclavo \in Derivadas}

\* Lines 37-68: the lag variance, the trend synchrony and the start of the scan.
realizar_analisis_completo ==
    /\ etapa = "inactivo"
    /\ \E e \in EntradasDeAnalisis :
           /\ picos_fechas' = e.picos
           /\ derivadas_suavizadas' = e.derivadas
           /\ varianza_desfase' = ResumenDePaginas(e.picos[1], e.picos[2]).varianza
           /\ sincronia_tendencia' = SincroniaTendencia(e.derivadas[1], e.derivadas[2])
    /\ IniciarBarrido("realizar_analisis_completo")
    /\ vista' = "realizar_analisis_completo"
    /\ etapa' = "barrido"
    /\ UNCHANGED <<metrica, contaminantes, matriz, c1, c2>>
    /\ UNCHANGED <<vars_emparejador, vars_acceso, vars_eventos, vars_interfaz, vars_episodios>>

\* The scan is over: the results are returned.
RetornarAnalisis ==
    /\ etapa = "barrido"
    /\ vista = "realizar_analisis_completo"
    /\ lag > UltimoLag(vista)
    /\ etapa' = "fin"
    /\ UNCHANGED <<vista, metrica, contaminantes, picos_fechas, derivadas_suavizadas,
                   matriz, c1, c2, lag, max_corr, mejor_lag, correlaciones,
                   sincronia_tendencia, varianza_desfase>>
    /\ UNCHANGED <<vars_emparejador, vars_acceso, vars_eventos, vars_interfaz, vars_episodios>>

\* The steps of a call of calcular_matriz.
NextMatriz ==
    \/ calcular_matriz
    \/ CeldaDiagonal
    \/ CeldaTendencia
    \/ CeldaVarianza
    \/ CeldaDesfase
    \/ Barrer
    \/ AsignarDesfase
    \/ RetornarMatriz

NextPaginas ==
    \/ NextMatriz
    \/ realizar_analisis_completo
    \/ RetornarAnalisis

SpecPaginas == Init /\ [][NextPaginas]_vars

\* The interpreter runs calcular_matriz to its return: the loops always
\* take the next cell (for a cell of the lag variance the fairness is on the
\* loops passing it, whatever value resumir_desfases gives) and the matrix is
\* returned after the last one.
SpecMatrizJusta ==
    /\ Init
    /\ [][NextMatriz]_vars
    /\ WF_vars(CeldaDiagonal)
    /\ WF_<<c1, c2>>(PasarCeldaDeVarianza)
    /\ WF_vars(RetornarMatriz)

(***************************************************************************)
(* pages/Eventos_e_interrupciones.py (_calcular_metricas_sincronia) and     *)
(* pages/Análisis_de_eventos_(COVID-19).py (calcular_metricas_periodo).     *)
(***************************************************************************)
\* calcular_desfases_entre_picos(..., ventana_maxima_dias: int = 90)
VentanaPorOmision == 90

\* np.var(desfases) if desfases else np.nan
VarianzaDeTodos(los_desfases) ==
    IF los_desfases = <<>> THEN NaN ELSE np_var(los_desfases)

\* Lines 35-41 of the COVID page: each master peak with the first slave peak
\* after it, whether or not an earlier master took that peak.
RECURSIVE DesfasesAlSiguiente(_, _)
DesfasesAlSiguiente(fechas_picos1, fechas_picos2) ==
    IF fechas_picos1 = <<>> THEN <<>>
    ELSE LET fecha_pico_maestro == Head(fechas_picos1)
             Posterior(f) == f > fecha_pico_maestro
             picos_esclavo_posteriores == SelectSeq(fechas_picos2, Posterior)
         IN  (IF picos_esclavo_posteriores = <<>> THEN <<>>
              ELSE <<Head(picos_esclavo_posteriores) - fecha_pico_maestro>>)
                 \o DesfasesAlSiguiente(Tail(fechas_picos1), fechas_picos2)

\* The period handed to the metric functions: empty, or two series taken by
\* what is derived from them.
PeriodosDeEventos ==
    {[vacio |-> TRUE, picos |-> <<<<>>, <<>>>>, derivadas |-> <<<<>>, <<>>>>]}
        \cup {[vacio |-> FALSE, picos |-> e.picos, derivadas |-> e.derivadas] :
                 e \in EntradasDeAnalisis}

\* _calcular_metricas_sincronia(df_periodo, c1, c2): lines 32-59.
_calcular_metricas_sincronia ==
    /\ etapa = "inactivo"
    /\ \E p \in PeriodosDeEventos :
           /\ picos_fechas' = p.picos
           /\ derivadas_suavizadas' = p.derivadas
           /\ IF p.vacio
              THEN /\ sync_tend' = NaN
                   /\ var_desfase' = NaN
              ELSE /\ sync_tend' = SincroniaTendencia(p.derivadas[1], p.derivadas[2])
                   /\ var_desfase' =
                          VarianzaDeTodos(Emparejar(p.picos[1], p.picos[2],
                                                    VentanaPorOmision).desfases)
    /\ vista' = "_calcular_metricas_sincronia"
    /\ etapa' = "fin"
    /\ UNCHANGED <<metrica, contaminantes, matriz, c1, c2, lag, max_corr, mejor_lag,
                   correlaciones, varianza_desfase, sincronia_tendencia>>
    /\ UNCHANGED <<vars_emparejador, vars_acceso, vars_interfaz, vars_episodios>>

\* calcular_metricas_periodo(df_periodo, c1, c2): lines 16-45.
calcular_metricas_periodo ==
    /\ etapa = "inactivo"
    /\ \E p \in PeriodosDeEventos :
           /\ picos_fechas' = p.picos
           /\ derivadas_suavizadas' = p.derivadas
           /\ IF p.vacio
              THEN /\ sync_tend' = NaN
                   /\ var_desfase' = NaN
              ELSE /\ sync_tend' = TendenciaDeCelda(p.derivadas[1], p.derivadas[2])
                   /\ var_desfase' =
                          VarianzaDeTodos(DesfasesAlSiguiente(p.picos[1], p.picos[2]))
    /\ vista' = "calcular_metricas_periodo"
    /\ etapa' = "fin"
    /\ UNCHANGED <<metrica, contaminantes, matriz, c1, c2, lag, max_corr, mejor_lag,
                   correlaciones, varianza_desfase, sincronia_tendencia>>
    /\ UNCHANGED <<vars_emparejador, vars_acceso, vars_interfaz, vars_episodios>>

\* The views that report a lag variance for one pair of series: the two
\* event pages next to the pairwise comparison.
NextEventos ==
    \/ _calcular_metricas_sincronia
    \/ calcular_metricas_periodo
    \/ realizar_analisis_completo
    \/ Barrer
    \/ RetornarAnalisis

SpecEventos == Init /\ [][NextEventos]_vars

(***************************************************************************)
(* pages/Episodios_críticos.py: detectar_episodios, run row by row.         *)
(***************************************************************************)
MaxFecha == 3
MaxValor == 2

\* The calendar days of the series (days since its first possible date).
FechasDeSerie == 0..MaxFecha

\* What a day holds: no row, a row with NaN, or a row with a concentration.
Ausente == [ausente |-> TRUE, valor |-> NaN]
Presente(v) == [ausente |-> FALSE, valor |-> v]
Observaciones ==
    {Ausente, Presente(NaN)} \cup {Presente(Racional(v, 1)) : v \in 0..MaxValor}

\* The thresholds tried.
Umbrales == 0..(MaxValor - 1)

\* The rows of the days dia..MaxFecha of a calendar, in ascending order
\* (cargar_datos returns df.sort_index()).
RECURSIVE FilasDesde(_, _)
FilasDesde(calendario, dia) ==
    IF dia > MaxFecha THEN <<>>
    ELSE (IF calendario[dia].ausente THEN <<>>
          ELSE <<[fecha |-> dia, valor |-> calendario[dia].valor]>>)
             \o FilasDesde(calendario, dia + 1)

\* serie.dropna()
dropna(filas) ==
    LET ConValor(fila) == ~fila.valor.nan
    IN  SelectSeq(filas, ConValor)

\* valor > umbral
Excede(valor, limite) == valor.num > limite * valor.den

\* serie.loc[inicio_actual:fin_actual]: the rows dated from inicio to fin,
\* both included.
Ventana(filas, inicio, fin) ==
    LET Dentro(fila) == inicio <= fila.fecha /\ fila.fecha <= fin
    IN  SelectSeq(filas, Dentro)

RECURSIVE MaximoDe(_)
MaximoDe(valores) ==
    IF Len(valores) = 1 THEN valores[1]
    ELSE Max(valores[1], MaximoDe(Tail(valores)))

\* serie.index.max()
index_max(filas) == MaximoDe([k \in 1..Len(filas) |-> filas[k].fecha])

\* Mutant of the end of an episode: the date of the row that ends the run.
FinEnLaFila(fecha) == fecha

\* fin_actual = fecha - pd.Timedelta(days=1)
FinAnterior(fecha) == fecha - 1

\* Episodio(inicio=.., fin=.., duracion=.., maximo=.., promedio=..,
\* exceso_acumulado=..): lines 54-63 and 70-79 (values are whole numbers
\* here; max, mean and sum of no rows are NaN, NaN and 0).
Episodio(filas, limite, inicio, fin) ==
    LET ventana == Ventana(filas, inicio, fin)
        valores == [k \in 1..Len(ventana) |-> ventana[k].valor.num]
        excesos == [k \in 1..Len(valores) |-> Max(valores[k] - limite, 0)]
    IN  [inicio |-> inicio,
         fin |-> fin,
         duracion |-> (fin - inicio) + 1,
         maximo |-> IF valores = <<>> THEN NaN ELSE Racional(MaximoDe(valores), 1),
         promedio |-> IF valores = <<>> THEN NaN ELSE np_mean(valores),
         exceso_acumulado |-> Racional(Suma(excesos), 1)]

\* detectar_episodios(serie, umbral): lines 39-45.
detectar_episodios ==
    /\ fase = "inactivo"
    /\ \E calendario \in [FechasDeSerie -> Observaciones], limite \in Umbrales :
           /\ serie' = FilasDesde(calendario, 0)
           /\ umbral' = limite
           /\ fase' = IF dropna(FilasDesde(calendario, 0)) = <<>> THEN "fin" ELSE "bucle"
    /\ posicion' = 0
    /\ en_evento' = FALSE
    /\ inicio_actual' = None
    /\ episodios' = <<>>
    /\ UNCHANGED <<vars_emparejador, vars_paginas, vars_acceso, vars_eventos, vars_interfaz>>

\* One iteration of "for fecha, valor in serie.items()": lines 47-66.
IterarSerie ==
    /\ fase = "bucle"
    /\ posicion < Len(dropna(serie))
    /\ LET filas == dropna(serie)
           fila == filas[posicion + 1]
       IN  IF Excede(fila.valor, umbral)
           THEN /\ en_evento' = TRUE
                /\ inicio_actual' = IF en_evento THEN inicio_actual ELSE Algun(fila.fecha)
                /\ UNCHANGED episodios
           ELSE IF en_evento
           THEN /\ episodios' = Append(episodios,
                                       Episodio(filas, umbral, inicio_actual.valor,
                                                FinAnterior(fila.fecha)))
                /\ en_evento' = FALSE
                /\ inicio_actual' = None
           ELSE UNCHANGED <<en_evento, inicio_actual, episodios>>
    /\ posicion' = posicion + 1
    /\ UNCHANGED <<fase, serie, umbral>>
    /\ UNCHANGED <<vars_emparejador, vars_paginas, vars_acceso, vars_eventos, vars_interfaz>>

\* After the loop: lines 68-82, the run still open closed at serie.index.max().
CerrarSerie ==
    /\ fase = "bucle"
    /\ posicion = Len(dropna(serie))
    /\ LET filas == dropna(serie)
       IN  IF en_evento /\ ~inicio_actual.none
           THEN episodios' = Append(episodios,
                                    Episodio(filas, umbral, inicio_actual.valor,
                                             index_max(filas)))
           ELSE UNCHANGED episodios
    /\ fase' = "fin"
    /\ UNCHANGED <<serie, umbral, posicion, en_evento, inicio_actual>>
    /\ UNCHANGED <<vars_emparejador, vars_paginas, vars_acceso, vars_eventos, vars_interfaz>>

NextEpisodios ==
    \/ detectar_episodios
    \/ IterarSerie
    \/ CerrarSerie

SpecEpisodios == Init /\ [][NextEpisodios]_vars

(***************************************************************************)
(* utils/runtime.py, utils/downloads.py and utils/ui.py: the helpers a     *)
(* page calls while it renders, one call after another in one session.     *)
(***************************************************************************)
MaxElementos == 3

\* st.runtime.exists(): True inside the runtime, False outside, or it raises.
EstadosDeRuntime == {"activo", "inactivo", "falla"}

\* The objects handed to the download helpers: a plotly Figure, an altair
\* chart, another object with a to_html method, a bare object().
Figuras == {"Figure", "Chart", "con_to_html", "object"}

\* What the process has: plotly and altair importable, alt.TopLevelMixin
\* defined, kaleido importable, write_image and to_html succeeding.
Entornos ==
    [plotly : BOOLEAN, altair : BOOLEAN, TopLevelMixin : BOOLEAN, kaleido : BOOLEAN,
     write_image : BOOLEAN, to_html : BOOLEAN]

\* Mutant of runtime_activo: the runtime taken as always there.
SiempreActivo(estado) == TRUE

\* runtime_activo() / _runtime_activo(): st.runtime.exists(), False when it raises.
runtime_activo(estado) == estado = "activo"

\* _mostrar_advertencia(mensaje): st.warning only inside the runtime.
_mostrar_advertencia(estado) ==
    IF runtime_activo(estado) THEN <<"warning">> ELSE <<>>

\* boton_descarga_plotly, lines 63-111: what the call renders.
ElementosDePlotly(estado, objeto, entorno) ==
    IF ~runtime_activo(estado) THEN <<>>
    ELSE IF ~entorno.plotly THEN _mostrar_advertencia(estado)
    ELSE IF objeto # "Figure" THEN _mostrar_advertencia(estado)
    ELSE IF entorno.kaleido /\ entorno.write_image THEN <<"download_button">>
    ELSE IF ~entorno.to_html THEN _mostrar_advertencia(estado)
    ELSE <<"download_button", "caption">>

\* boton_descarga_altair, lines 122-156: what the call renders.
ElementosDeAltair(estado, objeto, entorno) ==
    LET grafico_valido ==
            \/ entorno.TopLevelMixin /\ objeto = "Chart"
            \/ objeto \in {"Figure", "Chart", "con_to_html"}
    IN  IF ~runtime_activo(estado) THEN <<>>
        ELSE IF ~entorno.altair THEN _mostrar_advertencia(estado)
        ELSE IF ~grafico_valido THEN _mostrar_advertencia(estado)
        ELSE IF ~entorno.to_html THEN _mostrar_advertencia(estado)
        ELSE <<"download_button">>

\* A call of boton_descarga_plotly(figura, nombre_archivo).
boton_descarga_plotly ==
    /\ Len(renderizado) < MaxElementos
    /\ \E estado \in EstadosDeRuntime, objeto \in Figuras, entorno \in Entornos :
           /\ runtime' = estado
           /\ figura' = objeto
           /\ renderizado' = renderizado \o ElementosDePlotly(estado, objeto, entorno)
    /\ llamada' = "boton_descarga_plotly"
    /\ salida' = "None"
    /\ UNCHANGED session_state
    /\ UNCHANGED <<vars_emparejador, vars_paginas, vars_acceso, vars_eventos, vars_episodios>>

\* A call of boton_descarga_altair(grafica, nombre_archivo).
boton_descarga_altair ==
    /\ Len(renderizado) < MaxElementos
    /\ \E estado \in EstadosDeRuntime, objeto \in Figuras, entorno \in Entornos :
           /\ runtime' = estado
           /\ figura' = objeto
           /\ renderizado' = renderizado \o ElementosDeAltair(estado, objeto, entorno)
    /\ llamada' = "boton_descarga_altair"
    /\ salida' = "None"
    /\ UNCHANGED session_state
    /\ UNCHANGED <<vars_emparejador, vars_paginas, vars_acceso, vars_eventos, vars_episodios>>

\* Mutant of line 43: the flag is never set.
MarcaSinPoner(marca) == marca

\* st.session_state[clave_estado] = True
MarcaPuesta(marca) == TRUE

\* A call of aplicar_estilos_generales(): lines 36-204.
aplicar_estilos_generales ==
    /\ Len(renderizado) < MaxElementos
    /\ \E estado \in EstadosDeRuntime :
           /\ runtime' = estado
           /\ IF ~runtime_activo(estado) \/ session_state
              THEN UNCHANGED <<session_state, renderizado>>
              ELSE /\ session_state' = MarcaPuesta(session_state)
                   /\ renderizado' = Append(renderizado, "markdown")
    /\ llamada' = "aplicar_estilos_generales"
    /\ salida' = "None"
    /\ UNCHANGED figura
    /\ UNCHANGED <<vars_emparejador, vars_paginas, vars_acceso, vars_eventos, vars_episodios>>

NextInterfaz ==
    \/ aplicar_estilos_generales
    \/ boton_descarga_plotly
    \/ boton_descarga_altair

SpecInterfaz == Init /\ [][NextInterfaz]_vars

(***************************************************************************)
(* Properties of the matcher.                                              *)
(***************************************************************************)
\* How many times x occurs in the list s.
Veces(s, x) == Cardinality({k \in 1..Len(s) : s[k] = x})

MaestrosDe(ps) == [k \in 1..Len(ps) |-> ps[k][1]]
EsclavosDe(ps) == [k \in 1..Len(ps) |-> ps[k][2]]

Elementos(s) == {s[k] : k \in 1..Len(s)}

\* The call has returned its result (not raised).
Retornado == pc \in {"retorno", "resumen"}

\* C1 as stated: no slave timestamp appears in more than one pair.
C1_EsclavoSinRepetir ==
    \A i, j \in 1..Len(pares) : i # j => pares[i][2] # pares[j][2]

\* C1 amended: no slave event is paired twice: a slave timestamp appears in
\* at most as many pairs as it occurs in the slave input, so a timestamp
\* that occurs once in the input is in at most one pair.
C1_EsclavoUsadoUnaVez ==
    \A t \in Elementos(EsclavosDe(pares)) \cup Elementos(fechas_esclavo) :
        Veces(EsclavosDe(pares), t) <= Veces(fechas_esclavo, t)

\* A later master got a slave farther away than one an earlier master consumed.
C1_Testigo ==
    /\ pc = "retorno"
    /\ \E j, k \in 1..Len(pares) :
          /\ j < k
          /\ Abs(pares[j][2] - pares[k][1]) < Abs(pares[k][3])

\* C2 as stated: each master timestamp is in at most one pair, and so is each
\* slave timestamp (a partial bijection between timestamps).
C2_BiyeccionDeFechas ==
    \A i, j \in 1..Len(pares) :
        i # j => pares[i][1] # pares[j][1] /\ pares[i][2] # pares[j][2]

\* C2 amended: each master event contributes at most one pair and each slave
\* event is consumed by at most one pair: a timestamp is in at most as many
\* pairs as it occurs in its input, and the pairs are never more than the
\* masters taken so far.
C2_BiyeccionDeEventos ==
    /\ Len(pares) <= indice
    /\ \A t \in Elementos(MaestrosDe(pares)) :
           Veces(MaestrosDe(pares), t) <= Veces(fechas_maestro, t)
    /\ \A t \in Elementos(EsclavosDe(pares)) :
           Veces(EsclavosDe(pares), t) <= Veces(fechas_esclavo, t)

\* A run that left a master and a slave event unmatched and matched another.
C2_Testigo ==
    /\ pc = "retorno"
    /\ Len(pares) >= 1
    /\ Len(pares) < Len(fechas_maestro)
    /\ Len(pares) < Len(fechas_esclavo)

\* C3: every pair has |lag| <= ventana_maxima_dias, and a slave event farther
\* than the window from every master is in no pair.
C3_DentroDeLaVentana ==
    /\ \A k \in 1..Len(pares) : Abs(pares[k][3]) <= ventana_maxima_dias
    /\ \A t \in Elementos(fechas_esclavo) :
           (\A m \in Elementos(fechas_maestro) : Abs(t - m) > ventana_maxima_dias)
               => t \notin Elementos(EsclavosDe(pares))

\* The test's run: window 15, the event of 2020-04-01 (day 91) stays out.
C3_Testigo ==
    /\ pc = "retorno"
    /\ fechas_maestro = PruebaCercanos.maestro
    /\ fechas_esclavo = PruebaCercanos.esclavo
    /\ ventana_maxima_dias = PruebaCercanos.ventana_busqueda
    /\ desfases = <<1, 1>>
    /\ 91 \in Elementos(fechas_esclavo_restantes)

\* C4: the number of pairs is at most min(len(master), len(slave)).
C4_ParesAcotados ==
    Len(pares) <= Min(Len(fechas_maestro), Len(fechas_esclavo))

\* The loop left on an empty pool with masters still to take.
C4_Testigo ==
    /\ pc = "retorno"
    /\ Len(pares) = Len(fechas_esclavo)
    /\ Len(pares) >= 1
    /\ Len(fechas_esclavo) < Len(fechas_maestro)
    /\ indice < Len(fechas_maestro)

\* C5: a negative window makes calcular_desfases_entre_picos fail, for every
\* master and slave, the empty ones too, and nothing is returned.
C5_VentanaNegativaFalla ==
    (funcion = "calcular_desfases_entre_picos" /\ ventana_maxima_dias < 0)
        => /\ pc = "ValueError"
           /\ desfases = <<>>
           /\ pares = <<>>
           /\ resumen = SinResumen

\* A negative window with both inputs empty.
C5_Testigo ==
    /\ pc = "ValueError"
    /\ funcion = "calcular_desfases_entre_picos"
    /\ fechas_maestro = <<>>
    /\ fechas_esclavo = <<>>

(***************************************************************************)
(* Properties of the summary.                                              *)
(***************************************************************************)
Resumido == pc = "resumen"

\* C6 as stated: a negative ventana_busqueda given to resumir_desfases or
\* resumir_desfases_seguro is reported as an error, never clamped.
C6_BusquedaNegativaFalla ==
    (funcion \in {"resumir_desfases", "resumir_desfases_seguro"} /\ ventana_busqueda < 0)
        => pc = "ValueError"

\* C6 amended: a negative ventana_busqueda given to resumir_desfases or
\* resumir_desfases_seguro raises nothing: it is clamped to 0, the matcher
\* runs with window 0, the summary reports ventana_busqueda = 0 (and a
\* reliable window of None or 0) and holds only pairs of lag 0.
C6_BusquedaNegativaAjustada ==
    (funcion \in {"resumir_desfases", "resumir_desfases_seguro"} /\ ventana_busqueda < 0)
        => /\ pc = "resumen"
           /\ ventana_maxima_dias = 0
           /\ resumen.ventana_busqueda = 0
           /\ resumen.ventana_confiable \in {None, Algun(0)}
           /\ resumen.pares = pares
           /\ \A k \in 1..Len(resumen.pares) : resumen.pares[k][3] = 0

\* resumir_desfases_seguro got a negative search window and returned a pair.
C6_Testigo ==
    /\ funcion = "resumir_desfases_seguro"
    /\ ventana_busqueda < 0
    /\ pc = "resumen"
    /\ Len(resumen.pares) >= 1
    /\ Len(resumen.pares) < Len(fechas_maestro)

\* C7 as stated: with master and slave the same sequence, every lag is 0,
\* the variance of the summary is 0 and no pair is discarded.
C7_IdenticasVarianzaCero ==
    fechas_maestro = fechas_esclavo
        => /\ \A k \in 1..Len(desfases) : desfases[k] = 0
           /\ Resumido => /\ resumen.varianza = Racional(0, 1)
                          /\ resumen.pares_descartados = <<>>

\* C7 amended: with master and slave the same non-empty sequence, every
\* event is matched, every lag is 0, the variance of the summary is 0 and no
\* pair is discarded; with both empty the variance is NaN.
C7_IdenticasNoVacias ==
    fechas_maestro = fechas_esclavo
        => /\ \A k \in 1..Len(desfases) : desfases[k] = 0
           /\ Retornado => Len(pares) = Len(fechas_maestro)
           /\ Resumido =>
               /\ resumen.pares_descartados = <<>>
               /\ resumen.desfases_validos = resumen.desfases
               /\ resumen.desfases = desfases
               /\ resumen.varianza =
                      IF fechas_maestro = <<>> THEN NaN ELSE Racional(0, 1)

\* The same list of several dates, one of them repeated or not, summarised.
C7_Testigo ==
    /\ Resumido
    /\ fechas_maestro = fechas_esclavo
    /\ Len(fechas_maestro) >= 2
    /\ Len(resumen.desfases) = Len(fechas_maestro)

\* C8: pares_validos and pares_descartados partition pares: the valid ones
\* have |lag| <= reliable window, the discarded ones reliable window < |lag|
\* <= search window, every pair is in exactly one of the two, in the order of
\* pares; with reliable window None all are valid and none discarded.
C8_Particion ==
    Resumido =>
        LET v == resumen.pares_validos
            d == resumen.pares_descartados
            R == resumen.ventana_confiable
        IN  /\ Len(v) + Len(d) = Len(resumen.pares)
            /\ Elementos(v) \cap Elementos(d) = {}
            /\ \A p \in Elementos(resumen.pares) :
                   Veces(v, p) + Veces(d, p) = Veces(resumen.pares, p)
            /\ Elementos(v) \cup Elementos(d) = Elementos(resumen.pares)
            /\ IF R.none
               THEN v = resumen.pares /\ d = <<>>
               ELSE /\ \A k \in 1..Len(v) : Abs(v[k][3]) <= R.valor
                    /\ \A k \in 1..Len(d) :
                           /\ R.valor < Abs(d[k][3])
                           /\ Abs(d[k][3]) <= resumen.ventana_busqueda

\* A summary with a valid pair and a discarded pair.
C8_Testigo ==
    /\ Resumido
    /\ Len(resumen.pares_validos) >= 1
    /\ Len(resumen.pares_descartados) >= 1

\* Sum of the squares of a list.
RECURSIVE SumaCuadrados(_)
SumaCuadrados(s) == IF s = <<>> THEN 0 ELSE Head(s) * Head(s) + SumaCuadrados(Tail(s))

\* q is the rational a/b (b > 0).
EsCociente(q, a, b) == ~q.nan /\ ~q.raiz /\ q.num * b = a * q.den

\* r is the non-negative square root of the rational q.
EsRaizDe(r, q) ==
    /\ ~r.nan
    /\ IF r.raiz THEN r.num * q.den = q.num * r.den
       ELSE r.num >= 0 /\ r.num * r.num * q.den = q.num * r.den * r.den

\* C9: varianza, desfase_medio and desviacion_estandar are the population
\* statistics of the lags of pares_validos alone (variance = mean of squares
\* minus square of mean); the test's lags 1, 2 with 59 discarded give 0.25.
C9_EstadisticasDeValidos ==
    Resumido =>
        LET xs == DesfasesDe(resumen.pares_validos)
            n == Len(xs)
        IN  /\ resumen.desfases_validos = xs
            /\ n >= 1 =>
                /\ EsCociente(resumen.desfase_medio, Suma(xs), n)
                /\ EsCociente(resumen.varianza,
                              n * SumaCuadrados(xs) - Suma(xs) * Suma(xs), n * n)
                /\ EsRaizDe(resumen.desviacion_estandar, resumen.varianza)
            /\ (fechas_maestro = PruebaExtremas.maestro
                  /\ fechas_esclavo = PruebaExtremas.esclavo
                  /\ ventana_busqueda = PruebaExtremas.ventana_busqueda
                  /\ ventana_confiable = PruebaExtremas.ventana_confiable)
               => /\ xs = <<1, 2>>
                  /\ DesfasesDe(resumen.pares_descartados) = <<59>>
                  /\ resumen.varianza = Racional(1, 4)

\* Several valid lags that differ, and a discarded pair that would change
\* the statistics.
C9_Testigo ==
    /\ Resumido
    /\ Len(resumen.pares_validos) >= 2
    /\ Len(resumen.pares_descartados) >= 1
    /\ resumen.varianza # Racional(0, 1)
    /\ resumen.varianza # np_var(resumen.desfases)

\* C10: with no valid pair the three statistics are NaN, never 0; with one
\* valid pair varianza = 0, desviacion_estandar = 0 and desfase_medio is
\* that pair's lag.
C10_EstadisticasDegeneradas ==
    Resumido =>
        /\ Len(resumen.pares_validos) = 0 =>
               /\ resumen.varianza = NaN
               /\ resumen.desfase_medio = NaN
               /\ resumen.desviacion_estandar = NaN
        /\ Len(resumen.pares_validos) = 1 =>
               /\ resumen.varianza = Racional(0, 1)
               /\ resumen.desviacion_estandar = Racional(0, 1)
               /\ resumen.desfase_medio = Racional(resumen.pares_validos[1][3], 1)

\* Pairs were accepted, and the reliable window discarded all of them.
C10_Testigo ==
    /\ Resumido
    /\ Len(resumen.pares) >= 1
    /\ Len(resumen.pares_validos) = 0
    /\ resumen.varianza.nan

(***************************************************************************)
(* Properties of the windows, the selection and the order of the inputs.   *)
(***************************************************************************)
\* C11: with a reliable window R above the search window S the summary is the
\* one of R = S: the reported reliable window is S clamped, every accepted
\* pair is within S, all of them are valid and none is discarded.
C11_ConfiableAcotada ==
    (Resumido /\ ~ventana_confiable.none /\ ventana_confiable.valor > ventana_busqueda)
        => LET S == AjustarBusqueda(ventana_busqueda)
           IN  /\ resumen = Resumir(desfases, pares, S,
                                    AjustarConfiable(Algun(ventana_busqueda), S))
               /\ resumen.ventana_confiable = Algun(S)
               /\ \A k \in 1..Len(resumen.pares) : Abs(resumen.pares[k][3]) <= S
               /\ resumen.pares_validos = resumen.pares
               /\ resumen.pares_descartados = <<>>

\* R > S >= 0, a pair was accepted, and a master has a slave left in the pool
\* that is outside S and inside R.
C11_Testigo ==
    /\ Resumido
    /\ ~ventana_confiable.none
    /\ ventana_busqueda >= 0
    /\ ventana_confiable.valor > ventana_busqueda
    /\ Len(resumen.pares) >= 1
    /\ \E m \in Elementos(fechas_maestro), t \in Elementos(fechas_esclavo_restantes) :
          /\ Abs(t - m) > ventana_busqueda
          /\ Abs(t - m) <= ventana_confiable.valor

\* The largest and the smallest of a non-empty set of dates.
Mayor(S) == CHOOSE x \in S : \A y \in S : y <= x
Menor(S) == CHOOSE x \in S : \A y \in S : x <= y

\* The dates of the pool next to m: the last one before it, the first one
\* not before it.
Vecinos(pool, m) ==
    LET antes == {x \in Elementos(pool) : x < m}
        desde == {x \in Elementos(pool) : x >= m}
    IN  (IF antes = {} THEN {} ELSE {Mayor(antes)})
            \cup (IF desde = {} THEN {} ELSE {Menor(desde)})

\* The one of the dates S that minimises (|lag|, lag) for the master m.
MasCercano(S, m) ==
    CHOOSE c \in S : \A d \in S :
        \/ Abs(c - m) < Abs(d - m)
        \/ Abs(c - m) = Abs(d - m) /\ c <= d

\* C12: each iteration selects, among the predecessor and the successor of
\* the master in the remaining pool, the one that minimises (|lag|, lag): the
\* nearer one, the predecessor when both are equally far; it is paired when
\* within the window.
C12_SeleccionMinima ==
    [][(pc = "bucle" /\ indice' = indice + 1)
          => LET m == fechas_maestro_ordenadas[indice + 1]
                 c == MasCercano(Vecinos(fechas_esclavo_restantes, m), m)
             IN  IF Abs(c - m) <= ventana_maxima_dias
                 THEN pares' = Append(pares, <<m, c, c - m>>)
                 ELSE pares' = pares]_vars

\* One master between two slaves equally far: the earlier one was taken.
C12_Testigo ==
    /\ pc = "retorno"
    /\ Len(fechas_maestro) = 1
    /\ Len(pares) = 1
    /\ pares[1][3] < 0
    /\ (pares[1][1] - pares[1][3]) \in Elementos(fechas_esclavo_restantes)

\* C13: with a window >= 0 and an empty master or slave the matcher returns
\* empty lags and pairs and raises nothing; the summary then has empty pair
\* lists and NaN statistics.
C13_VaciosSinError ==
    (funcion # "" /\ ventana_maxima_dias >= 0
        /\ (fechas_maestro = <<>> \/ fechas_esclavo = <<>>))
        => /\ Retornado
           /\ desfases = <<>>
           /\ pares = <<>>
           /\ Resumido =>
                /\ resumen.desfases = <<>>
                /\ resumen.pares = <<>>
                /\ resumen.pares_validos = <<>>
                /\ resumen.pares_descartados = <<>>
                /\ resumen.desfases_validos = <<>>
                /\ resumen.varianza = NaN
                /\ resumen.desfase_medio = NaN
                /\ resumen.desviacion_estandar = NaN

\* A summary of several masters and no slave.
C13_Testigo ==
    /\ Resumido
    /\ Len(fechas_maestro) >= 2
    /\ fechas_esclavo = <<>>
    /\ resumen.varianza.nan

\* The dates of s in ascending order: the k-th is the date with fewer than k
\* dates before it and at least k dates up to it.
Ascendente(s) ==
    [k \in 1..Len(s) |->
        CHOOSE x \in Elementos(s) :
            /\ Cardinality({i \in 1..Len(s) : s[i] < x}) < k
            /\ Cardinality({i \in 1..Len(s) : s[i] <= x}) >= k]

\* C14: the pairs do not depend on the order of the inputs: they are the
\* pairs of the same dates given in ascending order, so every permutation of
\* the master and of the slave gives the same list.
C14_OrdenIrrelevante ==
    (funcion = "calcular_desfases_entre_picos" /\ pc = "retorno")
        => LET r == Emparejar(Ascendente(fechas_maestro), Ascendente(fechas_esclavo),
                              ventana_maxima_dias)
           IN  /\ pares = r.pares
               /\ desfases = r.desfases

\* Both inputs given out of order, two pairs found.
C14_Testigo ==
    /\ funcion = "calcular_desfases_entre_picos"
    /\ pc = "retorno"
    /\ fechas_maestro # Ascendente(fechas_maestro)
    /\ fechas_esclavo # Ascendente(fechas_esclavo)
    /\ Len(pares) = 2

\* C15: every pair (m, s, lag) has m from the master input, s from the slave
\* input and lag = s - m; the pairs are in ascending master order and the
\* lags returned are the lags of the pairs, in that order.
C15_ParesBienFormados ==
    /\ \A k \in 1..Len(pares) :
          /\ pares[k][1] \in Elementos(fechas_maestro)
          /\ pares[k][2] \in Elementos(fechas_esclavo)
          /\ pares[k][3] = pares[k][2] - pares[k][1]
    /\ \A k \in 1..(Len(pares) - 1) : pares[k][1] <= pares[k + 1][1]
    /\ desfases = DesfasesDe(pares)
    /\ (pc = "retorno" /\ fechas_maestro = PruebaDetalle.maestro
          /\ fechas_esclavo = PruebaDetalle.esclavo
          /\ ventana_maxima_dias = PruebaDetalle.ventana_busqueda)
       => pares = << <<60, 62, 2>>, <<105, 130, 25>> >>

\* A run with one slave before its master and one after.
C15_Testigo ==
    /\ pc = "retorno"
    /\ Len(pares) = 2
    /\ pares[1][3] < 0
    /\ pares[2][3] > 0


(***************************************************************************)
(* Properties of the matrices and of the pairwise analysis.                *)
(***************************************************************************)
\* calcular_matriz has returned the matrix of the metric.
MatrizTerminada(nombre_metrica) ==
    vista = "calcular_matriz" /\ etapa = "fin" /\ metrica = nombre_metrica

\* The cells outside the diagonal.
FueraDeDiagonal ==
    {par \in (1..Len(contaminantes)) \X (1..Len(contaminantes)) : par[1] # par[2]}

\* The events a call matched and kept, seen from the other series: each
\* pair (m, s, lag) as (s, m, -lag).
Espejo(ps) == {<<ps[k][2], ps[k][1], -ps[k][3]>> : k \in 1..Len(ps)}

\* C16: the lag variance is not symmetric in its arguments: the cells [i,j]
\* and [j,i] of the lag-variance matrix can differ, and when they do the two
\* calls of resumir_desfases have matched different events.
C16_VarianzaNoSimetrica ==
    MatrizTerminada("varianza")
        => \A par \in FueraDeDiagonal :
               LET i == par[1]
                   j == par[2]
               IN  matriz[i][j] # matriz[j][i]
                       => Espejo(ResumenDePaginas(picos_fechas[i], picos_fechas[j]).pares_validos)
                              # Elementos(ResumenDePaginas(picos_fechas[j],
                                                          picos_fechas[i]).pares_validos)

\* A finished matrix with two defined variances that differ between [i,j] and [j,i].
C16_Testigo ==
    /\ MatrizTerminada("varianza")
    /\ \E par \in FueraDeDiagonal :
           /\ ~matriz[par[1]][par[2]].nan
           /\ ~matriz[par[2]][par[1]].nan
           /\ matriz[par[1]][par[2]] # matriz[par[2]][par[1]]


\* The loop over the lags has taken every lag of its range.
BarridoCompleto ==
    /\ etapa \in {"barrido", "celdas", "fin"}
    /\ Len(correlaciones) = 2 * UltimoLag(vista) + 1

\* The correlation the scan got at lag l.
CorrelacionEn(l) == correlaciones[l + UltimoLag(vista) + 1]

\* a <= b and a < b on defined floats.
NoMayor(a, b) == a.num * b.den <= b.num * a.den
MenorEstricto(a, b) == a.num * b.den < b.num * a.den

\* l is a lag of the range whose correlation no lag exceeds, and every
\* earlier lag has a smaller correlation (lags without a defined correlation
\* are not compared).
EsPrimerMaximo(l) ==
    /\ l \in (-UltimoLag(vista))..UltimoLag(vista)
    /\ ~CorrelacionEn(l).nan
    /\ \A k \in (-UltimoLag(vista))..UltimoLag(vista) :
           ~CorrelacionEn(k).nan
               => /\ NoMayor(CorrelacionEn(k), CorrelacionEn(l))
                  /\ k < l => MenorEstricto(CorrelacionEn(k), CorrelacionEn(l))

\* C17: the best lag returned by the scan of calcular_matriz and of
\* realizar_analisis_completo is a lag of the range that maximizes the
\* correlation and, among the lags achieving the maximum, the first one.
C17_MejorLagEsPrimerMaximo ==
    BarridoCompleto => EsPrimerMaximo(mejor_lag)


\* The steps where both rates of change are defined, and those among them
\* where the two signs are equal.
PasosDefinidos(derivada1, derivada2) ==
    {k \in 1..Len(derivada1) : ~derivada1[k].nan /\ ~derivada2[k].nan}

PasosConcordantes(derivada1, derivada2) ==
    {k \in PasosDefinidos(derivada1, derivada2) :
        np_sign(derivada1[k]) = np_sign(derivada2[k])}

\* C18: each off-diagonal cell of the trend matrix of calcular_matriz is the
\* percentage of steps with equal signs of the two rates of change, counted
\* over the steps where both rates are defined only: a step where a rate is
\* missing is neither in the numerator nor in the denominator.
C18_TendenciaSobrePasosDefinidos ==
    MatrizTerminada("tendencia")
        => \A par \in FueraDeDiagonal :
               LET derivada1 == derivadas_suavizadas[par[1]]
                   derivada2 == derivadas_suavizadas[par[2]]
                   definidos == Cardinality(PasosDefinidos(derivada1, derivada2))
                   concordantes == Cardinality(PasosConcordantes(derivada1, derivada2))
               IN  definidos > 0
                       => EsCociente(matriz[par[1]][par[2]], 100 * concordantes, definidos)


\* The loops over the columns have passed the cell [i, j].
CeldaAsignada(i, j) == i < c1 \/ (i = c1 /\ j < c2)

\* C19: in every matrix of calcular_matriz the diagonal cells are fixed,
\* whatever the data: 100 for the trend metric, 0 for the lag-variance
\* metric and 0 for the best-lag metric.
C19_DiagonalFija ==
    vista = "calcular_matriz"
        => \A i \in 1..Len(contaminantes) :
               CeldaAsignada(i, i)
                   => /\ metrica = "tendencia" => matriz[i][i] = Racional(100, 1)
                      /\ metrica = "varianza" => matriz[i][i] = Racional(0, 1)
                      /\ metrica = "desfase" => matriz[i][i] = Racional(0, 1)

\* A finished trend matrix whose cells outside the diagonal are not 100.
C19_Testigo ==
    /\ MatrizTerminada("tendencia")
    /\ \A i \in 1..Len(contaminantes) : matriz[i][i] = Racional(100, 1)
    /\ \A par \in FueraDeDiagonal : matriz[par[1]][par[2]] # Racional(100, 1)


\* The population variance of the lags xs: (n * sum of squares - sum^2) / n^2.
EsVarianzaDe(q, xs) ==
    EsCociente(q, Len(xs) * SumaCuadrados(xs) - Suma(xs) * Suma(xs), Len(xs) * Len(xs))

\* Each cell of the lag-variance matrix that the loops have passed is NaN
\* when its own two series have no valid lag, and otherwise the variance of
\* their valid lags.
CeldasDeVarianzaPropias ==
    (vista = "calcular_matriz" /\ metrica = "varianza")
        => \A par \in FueraDeDiagonal :
               CeldaAsignada(par[1], par[2])
                   => LET validos == ResumenDePaginas(picos_fechas[par[1]],
                                                      picos_fechas[par[2]]).desfases_validos
                          celda == matriz[par[1]][par[2]]
                      IN  IF validos = <<>>
                          THEN celda = NaN
                          ELSE EsVarianzaDe(celda, validos)

\* The loops of calcular_matriz have stored NaN in a cell of the
\* lag-variance matrix and have cells left.
VarianzaIndefinidaEnCurso ==
    /\ vista = "calcular_matriz"
    /\ metrica = "varianza"
    /\ etapa = "celdas"
    /\ \E par \in FueraDeDiagonal :
           CeldaAsignada(par[1], par[2]) /\ matriz[par[1]][par[2]] = NaN

\* C20: when the lag variance of one ordered pair of series is undefined (no
\* valid pair), calcular_matriz with the metric 'varianza' still completes:
\* the matrix is returned, that cell holds NaN, and every other cell holds
\* the variance of the valid lags of its own two series.
C20_VarianzaIndefinidaNoAborta ==
    /\ []CeldasDeVarianzaPropias
    /\ VarianzaIndefinidaEnCurso ~> MatrizTerminada("varianza")

\* A finished matrix with an undefined cell followed by a cell whose
\* variance is defined and not zero.
C20_Testigo ==
    /\ MatrizTerminada("varianza")
    /\ \E par \in FueraDeDiagonal, otro \in FueraDeDiagonal :
           /\ par[1] < otro[1] \/ (par[1] = otro[1] /\ par[2] < otro[2])
           /\ matriz[par[1]][par[2]] = NaN
           /\ ~matriz[otro[1]][otro[2]].nan
           /\ matriz[otro[1]][otro[2]].num > 0

(***************************************************************************)
(* Claims on utils/peak_matching_access.py.                                *)
(***************************************************************************)

\* The summary is what resumir_desfases builds (lines 91-145) for the
\* arguments of the call in progress: the matcher was run with the clamped
\* search window, and desfases and pares are what it returned.
EsElResumenDirecto(un_resumen) ==
    LET busqueda == AjustarBusqueda(ventana_busqueda)
    IN  /\ ventana_maxima_dias = busqueda
        /\ un_resumen = Resumir(desfases, pares, busqueda,
                                AjustarConfiable(ventana_confiable, busqueda))

\* The call in progress went through the proxy, or through the fallback
\* built on calcular_desfases_entre_picos.
PorAccesoSeguro ==
    \/ funcion = "resumir_desfases_seguro"
    \/ /\ funcion = "_resumir_desfases_fallback"
       /\ calcular_desfases = "calcular_desfases_entre_picos"

\* C21: for every master list, slave list, search window and reliable
\* window, resumir_desfases_seguro returns the summary resumir_desfases
\* returns, and so does _resumir_desfases_fallback built on
\* calcular_desfases_entre_picos; neither raises.
C21_AccesoEquivalente ==
    PorAccesoSeguro => (pc = "resumen" /\ EsElResumenDirecto(resumen))

\* The fallback on the real matcher has returned a summary with a valid
\* pair and a discarded pair.
C21_Testigo ==
    /\ pc = "resumen"
    /\ funcion = "_resumir_desfases_fallback"
    /\ calcular_desfases = "calcular_desfases_entre_picos"
    /\ resumen.pares_validos # <<>>
    /\ resumen.pares_descartados # <<>>

\* The fallback has returned after its matcher rejected return_pares.
SinReturnPares ==
    /\ pc = "resumen"
    /\ funcion = "_resumir_desfases_fallback"
    /\ calcular_desfases = "sin_return_pares"

\* C30: when the matcher given to _resumir_desfases_fallback rejects
\* return_pares with a TypeError, the summary has empty pares, pares_validos
\* and pares_descartados, desfases_validos holds every accepted lag, and the
\* statistics are those of all of them: the reliable window is not applied.
\* (The accepted lags are desfases, the list the second call of the matcher
\* returned for the clamped search window.)
C30_SinParesSinFiltro ==
    SinReturnPares =>
        LET xs == desfases
            n == Len(desfases)
        IN  /\ ventana_maxima_dias = AjustarBusqueda(ventana_busqueda)
            /\ resumen.pares = <<>>
            /\ resumen.pares_validos = <<>>
            /\ resumen.pares_descartados = <<>>
            /\ resumen.desfases = xs
            /\ resumen.desfases_validos = xs
            /\ n = 0 => (resumen.varianza = NaN /\ resumen.desfase_medio = NaN
                           /\ resumen.desviacion_estandar = NaN)
            /\ n >= 1 =>
                /\ EsCociente(resumen.desfase_medio, Suma(xs), n)
                /\ EsCociente(resumen.varianza,
                              n * SumaCuadrados(xs) - Suma(xs) * Suma(xs), n * n)
                /\ EsRaizDe(resumen.desviacion_estandar, resumen.varianza)

\* After the TypeError, two accepted lags that differ, one of them beyond
\* the reliable window the summary reports.
C30_Testigo ==
    /\ SinReturnPares
    /\ ~resumen.ventana_confiable.none
    /\ Len(resumen.desfases_validos) = 2
    /\ resumen.desfases_validos[1] # resumen.desfases_validos[2]
    /\ \E k \in 1..2 : Abs(resumen.desfases_validos[k]) > resumen.ventana_confiable.valor
    /\ resumen.varianza.num > 0

(***************************************************************************)
(* Claims on the steps of the matcher.                                     *)
(***************************************************************************)

\* How many slaves of date d no earlier master has consumed.
NoConsumidos(d) == Veces(fechas_esclavo, d) - Veces(EsclavosDe(pares), d)

\* C24: at every step of the matcher, a matched master is paired with a
\* temporally nearest slave among all slaves not consumed by earlier masters
\* (no remaining slave is strictly closer), and a master left unmatched has
\* no remaining slave within the window.
C24_MasCercanoDeLosRestantes ==
    [][(pc = "bucle" /\ indice' = indice + 1)
          => LET m == fechas_maestro_ordenadas[indice + 1]
                 libres == {d \in Elementos(fechas_esclavo) : NoConsumidos(d) > 0}
             IN  IF Len(pares') = Len(pares) + 1
                 THEN LET par == pares'[Len(pares')]
                      IN  /\ SubSeq(pares', 1, Len(pares)) = pares
                          /\ par[1] = m
                          /\ par[2] \in libres
                          /\ \A d \in libres : Abs(d - m) >= Abs(par[2] - m)
                 ELSE /\ pares' = pares
                      /\ \A d \in libres : Abs(d - m) > ventana_maxima_dias]_vars

\* The loop took two masters: one was paired with the nearer of two distinct
\* slaves, the other was left unmatched with a slave still in the pool.
C24_Testigo ==
    /\ pc = "retorno"
    /\ indice = 2
    /\ Len(pares) = 1
    /\ Len(fechas_esclavo) = 2
    /\ fechas_esclavo[1] # fechas_esclavo[2]
    /\ fechas_esclavo_restantes # <<>>
    /\ Abs(fechas_esclavo_restantes[1] - pares[1][1]) > Abs(pares[1][3])

\* The pool is sorted ascending.
PoolOrdenado ==
    \A k \in 1..(Len(fechas_esclavo_restantes) - 1) :
        fechas_esclavo_restantes[k] <= fechas_esclavo_restantes[k + 1]

\* The pool holds each date as often as the slave input does, less the
\* slaves already paired.
PoolEsElResto ==
    \A d \in Elementos(fechas_esclavo) \cup Elementos(fechas_esclavo_restantes) :
        Veces(fechas_esclavo_restantes, d) = NoConsumidos(d)

\* The loop is running or has ended: the call got past the early returns of
\* lines 26-33, so the pool of line 36 exists.
EnElBucle ==
    \/ pc = "bucle"
    \/ pc = "retorno" /\ fechas_maestro # <<>> /\ fechas_esclavo # <<>>

\* C25: processing one master either removes exactly the selected slave from
\* the pool (when |lag| <= window) or leaves the pool unchanged; after every
\* step the pool is sorted ascending and equals the slave input minus the
\* slaves already paired, so its size never grows.
C25_PoolMenguante ==
    /\ [](EnElBucle => (PoolOrdenado /\ PoolEsElResto))
    /\ [][(pc = "bucle" /\ indice' = indice + 1)
             => \/ /\ fechas_esclavo_restantes' = fechas_esclavo_restantes
                   /\ pares' = pares
                \/ /\ Len(pares') = Len(pares) + 1
                   /\ Abs(pares'[Len(pares')][3]) <= ventana_maxima_dias
                   /\ \E k \in 1..Len(fechas_esclavo_restantes) :
                          /\ fechas_esclavo_restantes[k] = pares'[Len(pares')][2]
                          /\ fechas_esclavo_restantes' =
                                 SubSeq(fechas_esclavo_restantes, 1, k - 1)
                                     \o SubSeq(fechas_esclavo_restantes, k + 1,
                                               Len(fechas_esclavo_restantes))]_vars
    /\ [][pc = "bucle" => Len(fechas_esclavo_restantes') <= Len(fechas_esclavo_restantes)]_vars

\* After one master was paired and another was not, the pool holds the one
\* slave nobody took.
C25_Testigo ==
    /\ pc = "bucle"
    /\ indice = 2
    /\ Len(pares) = 1
    /\ Len(fechas_esclavo) = 2
    /\ Len(fechas_esclavo_restantes) = 1
    /\ fechas_esclavo_restantes[1] # pares[1][2]

\* The assignments without reuse within the window: each master event gets
\* the position of a slave event or 0, no slave event is given twice, and
\* every lag is within the window.
Asignaciones ==
    {a \in [1..Len(fechas_maestro) -> 0..Len(fechas_esclavo)] :
        /\ \A j, k \in 1..Len(fechas_maestro) : (j # k /\ a[j] # 0) => a[j] # a[k]
        /\ \A k \in 1..Len(fechas_maestro) :
               a[k] # 0 => Abs(fechas_esclavo[a[k]] - fechas_maestro[k]) <= ventana_maxima_dias}

Cuenta(a) == Cardinality({k \in 1..Len(fechas_maestro) : a[k] # 0})

TotalDe(a) ==
    Suma([k \in 1..Len(fechas_maestro) |->
             IF a[k] = 0 THEN 0 ELSE Abs(fechas_esclavo[a[k]] - fechas_maestro[k])])

TotalDevuelto == Suma([k \in 1..Len(desfases) |-> Abs(desfases[k])])

\* The assignment pairs the same events as the pairs returned.
EsLaDevuelta(a) ==
    /\ Cuenta(a) = Len(pares)
    /\ \A m \in Elementos(fechas_maestro), d \in Elementos(fechas_esclavo) :
           Cardinality({k \in 1..Len(fechas_maestro) :
                            a[k] # 0 /\ fechas_maestro[k] = m /\ fechas_esclavo[a[k]] = d})
               = Cardinality({k \in 1..Len(pares) : pares[k][1] = m /\ pares[k][2] = d})

\* How many masters of date m were left unmatched.
SinPareja(m) == Veces(fechas_maestro, m) - Veces(MaestrosDe(pares), m)

\* C26: greedy matching is not globally optimal: for some inputs and window
\* another without-reuse assignment within the window has a smaller total
\* |lag| or matches more pairs. What every run does guarantee is less: the
\* pairs returned are one of the assignments without reuse within the window,
\* and no unmatched master could still be paired with a slave left over.
C26_VorazSoloMaximal ==
    (pc = "retorno" /\ funcion = "calcular_desfases_entre_picos")
        => /\ \E a \in Asignaciones : EsLaDevuelta(a)
           /\ \A m \in Elementos(fechas_maestro), d \in Elementos(fechas_esclavo) :
                  (SinPareja(m) > 0 /\ NoConsumidos(d) > 0)
                      => Abs(d - m) > ventana_maxima_dias

\* The matcher returned fewer pairs than another assignment without reuse
\* within the same window makes (masters 1, 2 and slaves 0, 1 with window 1:
\* one pair returned, two possible).
C26_Testigo ==
    /\ pc = "retorno"
    /\ funcion = "calcular_desfases_entre_picos"
    /\ \E a \in Asignaciones : Cuenta(a) > Len(pares)

(***************************************************************************)
(* Claim on the lag variance of the views.                                 *)
(***************************************************************************)

\* The lag variance a view reports for the pair of series of its call.
VarianzaDeLaVista ==
    IF vista = "realizar_analisis_completo" THEN varianza_desfase ELSE var_desfase

\* C22: every view that reports a lag variance for a pair of series (the
\* pairwise comparison and the two event-window pages) reports the value
\* resumir_desfases(...)['varianza'] has for the peaks of that pair: the
\* without-reuse matcher's pairs trimmed by the reliable window.
C22_VarianzaDeLaPolitica ==
    vista \in {"realizar_analisis_completo", "_calcular_metricas_sincronia",
               "calcular_metricas_periodo"}
        => VarianzaDeLaVista = ResumenDePaginas(picos_fechas[1], picos_fechas[2]).varianza

(***************************************************************************)
(* Claims on detectar_episodios.                                           *)
(***************************************************************************)

\* detectar_episodios has returned.
EpisodiosDevueltos == fase = "fin"

\* The value is a number above the threshold.
Sobre(valor) == ~valor.nan /\ valor.num > umbral * valor.den

\* The rows of the series with a value above the threshold.
Superaciones == {k \in 1..Len(serie) : Sobre(serie[k].valor)}

\* The rows of the series with a value at or below the threshold.
NoSuperaciones == {k \in 1..Len(serie) : ~serie[k].valor.nan /\ ~Sobre(serie[k].valor)}

\* The date lies between the start and the end of the episode.
EnEpisodio(fecha, ep) == ep.inicio <= fecha /\ fecha <= ep.fin

\* C27: each episode contains only consecutive days exceeding the threshold:
\* every calendar day from inicio to fin has an observation strictly greater
\* than umbral, and duracion equals the number of such observations.
C27_SoloDiasConsecutivos ==
    EpisodiosDevueltos =>
        \A e \in 1..Len(episodios) :
            LET ep == episodios[e]
            IN  /\ \A dia \in ep.inicio..ep.fin :
                       \E k \in Superaciones : serie[k].fecha = dia
                /\ ep.duracion =
                       Cardinality({k \in Superaciones : EnEpisodio(serie[k].fecha, ep)})

\* The rows with a value, in the order of the series.
ConValorEnOrden ==
    LET Numero(fila) == ~fila.valor.nan
    IN  SelectSeq(serie, Numero)

\* C28: for a series with ascending dates, detectar_episodios returns the
\* maximal runs of observations above the threshold: every observation
\* above umbral lies in exactly one episode, no observation at or below it
\* lies in any, consecutive observations above it share their episode, the
\* episodes are disjoint and chronological, and a run still open at the end
\* of the series is closed at the last date.
C28_RachasMaximales ==
    EpisodiosDevueltos =>
        /\ \A k \in Superaciones :
               Cardinality({e \in 1..Len(episodios) :
                                EnEpisodio(serie[k].fecha, episodios[e])}) = 1
        /\ \A k \in NoSuperaciones :
               \A e \in 1..Len(episodios) : ~EnEpisodio(serie[k].fecha, episodios[e])
        /\ \A e \in 1..Len(episodios) :
               /\ episodios[e].inicio <= episodios[e].fin
               /\ \E k \in Superaciones : serie[k].fecha = episodios[e].inicio
               /\ e < Len(episodios) => episodios[e].fin < episodios[e + 1].inicio
        /\ \A j \in 1..(Len(ConValorEnOrden) - 1) :
               LET a == ConValorEnOrden[j]
                   b == ConValorEnOrden[j + 1]
               IN  (Sobre(a.valor) /\ Sobre(b.valor))
                       => \E e \in 1..Len(episodios) :
                              /\ EnEpisodio(a.fecha, episodios[e])
                              /\ EnEpisodio(b.fecha, episodios[e])
        /\ (ConValorEnOrden # <<>>
              /\ Sobre(ConValorEnOrden[Len(ConValorEnOrden)].valor))
               => /\ episodios # <<>>
                  /\ episodios[Len(episodios)].fin
                         = ConValorEnOrden[Len(ConValorEnOrden)].fecha

\* Two runs were returned, the first closed by a row at or below the
\* threshold, the second still open at the last date of the series.
C28_Testigo ==
    /\ EpisodiosDevueltos
    /\ Len(episodios) = 2
    /\ en_evento
    /\ episodios[2].fin = serie[Len(serie)].fecha
    /\ episodios[2].inicio < episodios[2].fin

(***************************************************************************)
(* Claims on the interface helpers.                                        *)
(***************************************************************************)

EsDescarga(nombre) == nombre \in {"boton_descarga_plotly", "boton_descarga_altair"}

\* C23: when the Streamlit runtime is not active, boton_descarga_plotly and
\* boton_descarga_altair return without raising and without rendering any
\* button, warning or caption, whatever the figure object they are given.
C23_SinRuntimeNadaSeRenderiza ==
    [][(EsDescarga(llamada') /\ runtime' # "activo")
          => (salida' = "None" /\ renderizado' = renderizado)]_vars

\* A download helper was called on a plotly Figure outside the runtime,
\* after calls inside the runtime had rendered a button and a warning.
C23_Testigo ==
    /\ EsDescarga(llamada)
    /\ runtime # "activo"
    /\ figura = "Figure"
    /\ salida = "None"
    /\ renderizado = <<"download_button", "warning">>

\* How many times the style block was injected.
Inyecciones == Veces(renderizado, "markdown")

\* C29: within one session aplicar_estilos_generales injects the CSS at most
\* once: the first call with an active runtime sets the flag and injects,
\* later calls inject nothing, and with no active runtime no call injects or
\* sets the flag.
C29_EstilosUnaVez ==
    /\ [](Inyecciones <= 1 /\ (session_state <=> Inyecciones = 1))
    /\ [][llamada' = "aplicar_estilos_generales"
             => IF runtime' = "activo" /\ ~session_state
                THEN session_state' /\ renderizado' = Append(renderizado, "markdown")
                ELSE session_state' = session_state /\ renderizado' = renderizado]_vars

\* The styles were injected once, then other elements were rendered, and
\* the last call of aplicar_estilos_generales, inside the runtime, added nothing.
C29_Testigo ==
    /\ llamada = "aplicar_estilos_generales"
    /\ runtime = "activo"
    /\ session_state
    /\ Len(renderizado) >= 2
    /\ renderizado[1] = "markdown"
    /\ renderizado[Len(renderizado)] # "markdown"

====
